---- MODULE Spec2Model ----
(***************************************************************************)
(* Track fusion and decision engine of the tolling ALPR system.            *)
(*                                                                         *)
(*   core/tracker.py       VehicleTrack, VehicleTracker                    *)
(*   core/ocr_engine.py    OCREngine.process_plate, _clean_text            *)
(*   utils/roi_utils.py    ROIManager.calculate_intersection               *)
(*   core/detector.py      VehicleDetector.assign_wheels_to_vehicle        *)
(*   database/db_operations.py  DatabaseManager.add_vehicle_detection      *)
(*   web/backend/main.py   VideoCamera.get_frame                           *)
(*                                                                         *)
(* Units.  Detector confidence (0..1 in the code) is held in hundredths,   *)
(* so the literal 0.5 is 50.  Recognition confidence is the code's 0..100  *)
(* scale.  time.time() is an integer number of seconds.  None and the      *)
(* empty tuple/string are both the empty sequence <<>> (both are falsy in  *)
(* Python, which is all the code asks of them).  A text is a sequence of   *)
(* one-character strings.                                                  *)
(***************************************************************************)
EXTENDS Integers, Sequences, FiniteSets, TLC

VARIABLES
    tracks,       \* VehicleTracker.tracks: dict in insertion order, <<[key, val]>>
    next_id,      \* VehicleTracker.next_id
    now,          \* time.time()
    roi,          \* ROIManager.roi (<<>> when no ROI is configured)
    frame_count,  \* VideoCamera.frame_count
    pc,           \* position of get_frame: "idle" or "loop"
    dets,         \* get_frame: the detections of the frame still to be handled
    db,           \* vehicles table: sequence of rows
    ocr_calls,    \* history: track_id -> number of process_plate calls made for it
    assigned,     \* history: every track_id ever given to a new VehicleTrack
    call,         \* the most recent method call: its arguments and what it returned
    log,          \* history: the update_plate calls made on the track under test
    frames_read,  \* history: the number of frames read from VideoCamera.cap
    tasks,        \* the gen_frames coroutines: where each stands and its locals
    running,      \* the coroutine the event loop is running ("none" when none is)
    rate_key,     \* redis: the key rate_limit:<client_ip>, its value and its TTL
    limiter,      \* RateLimiter.__call__ for that client: its position and `current`
    active_connections,  \* ConnectionManager.active_connections
    last_vehicle_data,   \* ConnectionManager.last_vehicle_data
    broadcast     \* the broadcast in progress: where its loop is, who received

\* the variables of web/backend/websocket.py
ws_vars == <<active_connections, last_vehicle_data, broadcast>>

\* the variables of the event loop serving /video_feed
loop_vars == <<tasks, running>>

\* the variables of web/backend/middleware.py
rl_vars == <<rate_key, limiter>>

vars == <<tracks, next_id, now, roi, frame_count, pc, dets, db, ocr_calls,
          assigned, call, log, frames_read, ws_vars, loop_vars, rl_vars>>

-----------------------------------------------------------------------------
(* Program constants *)

POSITION_THRESHOLD == 100

OCR_CONFIDENCE_THRESHOLD == 40

\* Config.MIN_TRACK_CONFIDENCE = 0.3, in hundredths
MIN_TRACK_CONFIDENCE == 30

\* the literal 0.5 of VehicleTrack.should_process, in hundredths
SHOULD_PROCESS_CONFIDENCE == 50

\* VehicleTrack.max_ocr_attempts: int = 2
DEFAULT_MAX_OCR_ATTEMPTS == 2

\* the literal 1.0 of cleanup_old_tracks: a finished track goes after one second
LOCKED_MAX_AGE == 1

\* cleanup_old_tracks(max_age = 3.0)
DEFAULT_MAX_AGE == 3

\* Config.MAX_TRACK_AGE = 2.0 (its second, effective assignment)
MAX_TRACK_AGE == 2

\* Config.ROI_INTERSECTION_THRESHOLD = 0.2, in hundredths
ROI_INTERSECTION_THRESHOLD == 20

\* apply_nms(detections, iou_threshold=0.2), in hundredths
IOU_THRESHOLD == 20

\* VehicleDetector.conf_threshold = 0.5, in hundredths
CONF_THRESHOLD == 50

\* VideoCamera.skip_frames = 2
SKIP_FRAMES == 2

\* Config.SAVE_THRESHOLD = 75.0 (nothing in the program reads it)
SAVE_THRESHOLD == 75

-----------------------------------------------------------------------------
(* Bounds of the model *)

\* get_frame is called at most this many times
MaxFrames == 4

\* the clock of the frame pipeline stops here
MaxFrameTime == 1

\* a frame holds at most this many plate detections after suppression
MaxDets == 2

\* the clock stops here
MaxTime == 4

\* a VehicleTrack under test is built with max_ocr_attempts in 1..MaxAttemptsCap
MaxAttemptsCap == 3

\* update_plate is called at most this many times beyond max_ocr_attempts
ExtraCalls == 1

\* the registry harness creates at most this many tracks
MaxIds == 3

\* the clock of the matching harness stops here
MaxMatchTime == 1

-----------------------------------------------------------------------------
(* Values *)

None == <<>>

Max(a, b) == IF a >= b THEN a ELSE b

Min(a, b) == IF a <= b THEN a ELSE b

\* VehicleTrack.license_plate: str = "SCANNING..."
SCANNING == <<"S", "C", "A", "N", "N", "I", "N", "G", ".", ".", ".">>

\* Plate boxes (x1, y1, x2, y2), all 40 x 20.  Centres: (30,20), (110,20),
\* (130,20), (180,20).  BoxP-BoxR are exactly 100 apart, BoxP-BoxQ 80,
\* BoxQ-BoxS 70, BoxR-BoxS 50, BoxP-BoxS 150, BoxQ-BoxR 20.
BoxP == <<10, 10, 50, 30>>

BoxQ == <<90, 10, 130, 30>>

BoxR == <<110, 10, 150, 30>>

BoxS == <<160, 10, 200, 30>>

Boxes == {BoxP, BoxQ, BoxR, BoxS}

\* what a direct caller hands to get_track: (bbox, detection_confidence, axle_count)
MatchInputs ==
    {<<BoxP, 60, 2>>, <<BoxQ, 40, 3>>, <<BoxR, 60, 2>>, <<BoxS, 50, 2>>}

\* what the registry harness hands to get_track: two places 150 px apart
RegistryInputs ==
    {<<BoxP, 60, 2>>, <<BoxS, 60, 3>>}

\* what the registry harness hands to update_plate: (text, confidence)
RegistryReadings ==
    {<<<<"A">>, 30>>, <<<<"B">>, 85>>}

\* the max_age values cleanup_old_tracks is called with
MaxAges == {MAX_TRACK_AGE, DEFAULT_MAX_AGE}

\* what the single-track harness hands to update_plate: (text, confidence)
PlateReadings ==
    {<<<<"A">>, 0>>, <<<<"A">>, 30>>, <<<<"B">>, 30>>, <<<<"B">>, 40>>, <<<<"A">>, 85>>}

\* the plate detections the detector reports in a frame: (bbox, confidence,
\* axle_count), every confidence above conf_threshold
FrameInputs ==
    {<<BoxP, 90, 2>>, <<BoxQ, 60, 3>>, <<BoxS, 80, 2>>}

\* ROIManager.roi: none configured, the rectangle (0, 0, 100, 100), which holds
\* BoxP, a quarter of BoxQ and nothing of BoxS, or (122, 0, 300, 100), which
\* holds BoxS, exactly a fifth of BoxQ and nothing of BoxP
Rois == {None, <<0, 0, 100, 100>>, <<122, 0, 300, 100>>}

\* what Tesseract reads from a crop: (text, confidence)
TessReadings ==
    {<<<<>>, 0>>, <<<<"A", "1">>, 30>>, <<<<"A", "B">>, 85>>}

\* what EasyOCR reads from a crop: (text, confidence); among them a text with
\* no character _clean_text keeps and a text read with confidence 0
EasyReadings ==
    {<<<<>>, 0>>, <<<<"b", "-", "5">>, 40>>, <<<<"b", "-", "5">>, 60>>,
     <<<<"-">>, 60>>, <<<<"b">>, 0>>}

\* detector confidences handed to get_track by a direct caller
DetConfs == {40, 50, 60}

\* axle counts handed to get_track
AxleCounts == {2, 3}

-----------------------------------------------------------------------------
(* core/tracker.py: VehicleTrack *)

\* the dataclass defaults and __post_init__ (first_seen, which nothing reads, is left out)
VehicleTrack(id, m, t) ==
    [track_id |-> id,
     license_plate |-> SCANNING,
     best_ocr_confidence |-> 0,
     processing_complete |-> FALSE,
     state |-> "TRACKING",
     last_bbox |-> None,
     first_seen_bbox |-> None,
     ocr_attempts |-> 0,
     max_ocr_attempts |-> m,
     best_plate_image |-> 0,
     detection_confidence |-> 0,
     max_axle_count |-> 2,
     frame_path |-> None,
     last_seen |-> t]

\* update_position keeping the latest confidence and axle count instead of the maxima
update_position_latest(tr, bbox, detection_confidence, axle_count, t) ==
    [tr EXCEPT
        !.first_seen_bbox = IF @ = None THEN bbox ELSE @,
        !.last_bbox = bbox,
        !.last_seen = t,
        !.detection_confidence = detection_confidence,
        !.max_axle_count = axle_count]

update_position(tr, bbox, detection_confidence, axle_count, t) ==
    [tr EXCEPT
        !.first_seen_bbox = IF @ = None THEN bbox ELSE @,
        !.last_bbox = bbox,
        !.last_seen = t,
        !.detection_confidence = Max(@, detection_confidence),
        !.max_axle_count = Max(@, axle_count)]

\* should_process admitting a detector confidence of exactly 0.5
should_process_at_least(tr, in_roi) ==
    IF tr.processing_complete \/ tr.ocr_attempts >= tr.max_ocr_attempts
    THEN FALSE
    ELSE in_roi /\ tr.detection_confidence >= SHOULD_PROCESS_CONFIDENCE

should_process(tr, in_roi) ==
    IF tr.processing_complete \/ tr.ocr_attempts >= tr.max_ocr_attempts
    THEN FALSE
    ELSE in_roi /\ tr.detection_confidence > SHOULD_PROCESS_CONFIDENCE

\* lock_plate setting the flag and leaving state as it was
lock_plate_flag_only(tr) ==
    [tr EXCEPT !.processing_complete = TRUE]

lock_plate(tr) ==
    [tr EXCEPT !.processing_complete = TRUE, !.state = "LOCKED"]

\* update_plate replacing the best reading on an equal confidence too
update_plate_replace_on_equal(tr, text, confidence, plate_image) ==
    LET t1 == [tr EXCEPT !.ocr_attempts = @ + 1]
        better == confidence >= t1.best_ocr_confidence
        t2 == IF better
              THEN [t1 EXCEPT
                      !.best_ocr_confidence = confidence,
                      !.license_plate = text,
                      !.best_plate_image = IF plate_image # 0 THEN plate_image ELSE @]
              ELSE t1
    IN  IF better /\ confidence > OCR_CONFIDENCE_THRESHOLD
        THEN [track |-> lock_plate(t2), ret |-> TRUE]
        ELSE IF t2.ocr_attempts >= t2.max_ocr_attempts
             THEN [track |-> lock_plate(t2), ret |-> FALSE]
             ELSE [track |-> t2, ret |-> FALSE]

\* update_plate locking on a confidence equal to the threshold too
update_plate_lock_on_equal(tr, text, confidence, plate_image) ==
    LET t1 == [tr EXCEPT !.ocr_attempts = @ + 1]
        better == confidence > t1.best_ocr_confidence
        t2 == IF better
              THEN [t1 EXCEPT
                      !.best_ocr_confidence = confidence,
                      !.license_plate = text,
                      !.best_plate_image = IF plate_image # 0 THEN plate_image ELSE @]
              ELSE t1
    IN  IF better /\ confidence >= OCR_CONFIDENCE_THRESHOLD
        THEN [track |-> lock_plate(t2), ret |-> TRUE]
        ELSE IF t2.ocr_attempts >= t2.max_ocr_attempts
             THEN [track |-> lock_plate(t2), ret |-> FALSE]
             ELSE [track |-> t2, ret |-> FALSE]

\* update_plate locking on exhaustion one call late
update_plate_late_exhaustion(tr, text, confidence, plate_image) ==
    LET t1 == [tr EXCEPT !.ocr_attempts = @ + 1]
        better == confidence > t1.best_ocr_confidence
        t2 == IF better
              THEN [t1 EXCEPT
                      !.best_ocr_confidence = confidence,
                      !.license_plate = text,
                      !.best_plate_image = IF plate_image # 0 THEN plate_image ELSE @]
              ELSE t1
    IN  IF better /\ confidence > OCR_CONFIDENCE_THRESHOLD
        THEN [track |-> lock_plate(t2), ret |-> TRUE]
        ELSE IF t2.ocr_attempts > t2.max_ocr_attempts
             THEN [track |-> lock_plate(t2), ret |-> FALSE]
             ELSE [track |-> t2, ret |-> FALSE]

\* update_plate returning True when it locks on exhaustion
update_plate_true_on_exhaustion(tr, text, confidence, plate_image) ==
    LET t1 == [tr EXCEPT !.ocr_attempts = @ + 1]
        better == confidence > t1.best_ocr_confidence
        t2 == IF better
              THEN [t1 EXCEPT
                      !.best_ocr_confidence = confidence,
                      !.license_plate = text,
                      !.best_plate_image = IF plate_image # 0 THEN plate_image ELSE @]
              ELSE t1
    IN  IF better /\ confidence > OCR_CONFIDENCE_THRESHOLD
        THEN [track |-> lock_plate(t2), ret |-> TRUE]
        ELSE IF t2.ocr_attempts >= t2.max_ocr_attempts
             THEN [track |-> lock_plate(t2), ret |-> TRUE]
             ELSE [track |-> t2, ret |-> FALSE]

\* update_plate testing the threshold on the best confidence after the update,
\* whether or not this call set it
update_plate_lock_on_best(tr, text, confidence, plate_image) ==
    LET t1 == [tr EXCEPT !.ocr_attempts = @ + 1]
        better == confidence > t1.best_ocr_confidence
        t2 == IF better
              THEN [t1 EXCEPT !.best_ocr_confidence = confidence,
                              !.license_plate = text,
                              !.best_plate_image = IF plate_image # 0 THEN plate_image ELSE @]
              ELSE t1
    IN  IF t2.best_ocr_confidence > OCR_CONFIDENCE_THRESHOLD
        THEN [track |-> lock_plate(t2), ret |-> TRUE]
        ELSE IF t2.ocr_attempts >= t2.max_ocr_attempts
             THEN [track |-> lock_plate(t2), ret |-> FALSE]
             ELSE [track |-> t2, ret |-> FALSE]

\* update_plate mutates the track and returns a bool: [track, ret].
\* plate_image 0 is None.
update_plate(tr, text, confidence, plate_image) ==
    LET t1 == [tr EXCEPT !.ocr_attempts = @ + 1]
        better == confidence > t1.best_ocr_confidence
        t2 == IF better
              THEN [t1 EXCEPT
                      !.best_ocr_confidence = confidence,
                      !.license_plate = text,
                      !.best_plate_image = IF plate_image # 0 THEN plate_image ELSE @]
              ELSE t1
    IN  IF better /\ confidence > OCR_CONFIDENCE_THRESHOLD
        THEN [track |-> lock_plate(t2), ret |-> TRUE]
        ELSE IF t2.ocr_attempts >= t2.max_ocr_attempts
             THEN [track |-> lock_plate(t2), ret |-> FALSE]
             ELSE [track |-> t2, ret |-> FALSE]

-----------------------------------------------------------------------------
(* core/tracker.py: VehicleTracker *)

\* Python dict, insertion-ordered: d[k] = v
DictSet(d, k, v) ==
    IF \E i \in 1..Len(d) : d[i].key = k
    THEN [i \in 1..Len(d) |-> IF d[i].key = k THEN [key |-> k, val |-> v] ELSE d[i]]
    ELSE Append(d, [key |-> k, val |-> v])

Keys(d) == {d[i].key : i \in 1..Len(d)}

\* position of key k in the dict's iteration order
IndexOf(d, k) == CHOOSE i \in 1..Len(d) : d[i].key = k

\* 4 * (squared distance between the centres of two boxes); the centres are
\* ((x1+x2)/2, (y1+y2)/2), so the doubled coordinates are integers
Dist2x4(a, b) ==
    LET dx == (a[1] + a[3]) - (b[1] + b[3])
        dy == (a[2] + a[4]) - (b[2] + b[4])
    IN  dx * dx + dy * dy

\* get_track's test of one track: `if track.last_bbox:` and `distance < POSITION_THRESHOLD`.
\* The code compares the square root; for these half-integer centres the float
\* comparison agrees with the comparison of the squares.
Matches(tr, bbox) ==
    /\ tr.last_bbox # None
    /\ Dist2x4(bbox, tr.last_bbox) < 4 * POSITION_THRESHOLD * POSITION_THRESHOLD

\* create_track leaving next_id as it was
create_track_same_id(trs, nid, bbox, detection_confidence, axle_count, t) ==
    LET track == update_position(VehicleTrack(nid, DEFAULT_MAX_OCR_ATTEMPTS, t),
                                 bbox, detection_confidence, axle_count, t)
        d == DictSet(trs, nid, track)
    IN  [tracks |-> d, next_id |-> nid, ret |-> IndexOf(d, nid)]

\* get_track, no match found: a new VehicleTrack under key next_id
create_track(trs, nid, bbox, detection_confidence, axle_count, t) ==
    LET track == update_position(VehicleTrack(nid, DEFAULT_MAX_OCR_ATTEMPTS, t),
                                 bbox, detection_confidence, axle_count, t)
        d == DictSet(trs, nid, track)
    IN  [tracks |-> d, next_id |-> nid + 1, ret |-> IndexOf(d, nid)]

\* get_track: [tracks, next_id, ret] with ret the position of the returned track.
\* The loop returns at the first track of the iteration that passes the test.
get_track(trs, nid, bbox, detection_confidence, axle_count, t) ==
    LET hits == {i \in 1..Len(trs) : Matches(trs[i].val, bbox)}
    IN  IF hits # {}
        THEN LET i == CHOOSE j \in hits : \A h \in hits : j <= h
             IN  [tracks |-> [trs EXCEPT ![i].val =
                                 update_position(@, bbox, detection_confidence, axle_count, t)],
                  next_id |-> nid,
                  ret |-> i]
        ELSE create_track(trs, nid, bbox, detection_confidence, axle_count, t)

\* cleanup_old_tracks removing a track as soon as its age reaches max_age
cleanup_old_tracks_at_age(trs, max_age, t) ==
    LET remove(e) ==
            \/ t - e.val.last_seen >= max_age
            \/ (e.val.processing_complete /\ t - e.val.last_seen > LOCKED_MAX_AGE)
    IN  SelectSeq(trs, LAMBDA e : ~remove(e))

\* cleanup_old_tracks: the dict without the keys collected in to_remove
cleanup_old_tracks(trs, max_age, t) ==
    LET remove(e) ==
            \/ t - e.val.last_seen > max_age
            \/ (e.val.processing_complete /\ t - e.val.last_seen > LOCKED_MAX_AGE)
    IN  SelectSeq(trs, LAMBDA e : ~remove(e))

-----------------------------------------------------------------------------
(* core/ocr_engine.py: OCREngine *)

\* str.isalnum of one character of the model's alphabet.  "U+01F0" is the
\* letter j with caron, "U+030C" the combining caron, "U+0138" the letter kra
IsAlnum(c) ==
    c \in {"a", "b", "A", "B", "I", "J", "O", "S", "0", "1", "5", "8", "7",
           "U+01F0", "U+0138"}

\* str.upper of one character of the model's alphabet: a string, since j with
\* caron has no single upper-case character and becomes J followed by the
\* combining caron; kra has no upper case at all
Upper(c) ==
    CASE c = "a" -> <<"A">>
      [] c = "b" -> <<"B">>
      [] c = "U+01F0" -> <<"J", "U+030C">>
      [] OTHER -> <<c>>

\* the replacements dict of _clean_text
Replace(c) ==
    CASE c = "0" -> "O"
      [] c = "1" -> "I"
      [] c = "5" -> "S"
      [] c = "8" -> "B"
      [] OTHER -> c

\* str.upper of a string
RECURSIVE UpperStr(_)
UpperStr(text) ==
    IF text = <<>> THEN <<>> ELSE Upper(Head(text)) \o UpperStr(Tail(text))

\* _clean_text without the replacement of 8 by B
_clean_text_keeping_8(text) ==
    LET upper == UpperStr(SelectSeq(text, IsAlnum))
    IN  [i \in 1..Len(upper) |-> IF upper[i] = "8" THEN "8" ELSE Replace(upper[i])]

\* _clean_text: drop what is not alphanumeric, upper-case, replace 0 1 5 8
_clean_text(text) ==
    LET upper == UpperStr(SelectSeq(text, IsAlnum))
    IN  [i \in 1..Len(upper) |-> Replace(upper[i])]

\* process_plate cleaning Tesseract's text only
process_plate_first_cleaned(r1, r2) ==
    IF r1[2] > r2[2]
    THEN <<_clean_text(r1[1]), r1[2]>>
    ELSE <<r2[1], r2[2]>>

\* process_plate, given what the two engines read: the first wins only on a
\* strictly higher confidence; the winner's text is cleaned
process_plate(r1, r2) ==
    IF r1[2] > r2[2]
    THEN <<_clean_text(r1[1]), r1[2]>>
    ELSE <<_clean_text(r2[1]), r2[2]>>

-----------------------------------------------------------------------------
(* utils/roi_utils.py: ROIManager *)

\* calculate_intersection dividing by roi_area instead of bbox_area
calculate_intersection_over_roi(r, bbox) ==
    IF r = None
    THEN <<0, 1>>
    ELSE LET x1 == Max(r[1], bbox[1])
             y1 == Max(r[2], bbox[2])
             x2 == Min(r[3], bbox[3])
             y2 == Min(r[4], bbox[4])
             roi_area == (r[3] - r[1]) * (r[4] - r[2])
         IN  IF x1 < x2 /\ y1 < y2
             THEN <<(x2 - x1) * (y2 - y1), roi_area>>
             ELSE <<0, 1>>

\* calculate_intersection taking the whole frame for the ROI when none is set
calculate_intersection_whole_frame(r, bbox) ==
    IF r = None
    THEN <<1, 1>>
    ELSE LET x1 == Max(r[1], bbox[1])
             y1 == Max(r[2], bbox[2])
             x2 == Min(r[3], bbox[3])
             y2 == Min(r[4], bbox[4])
             bbox_area == (bbox[3] - bbox[1]) * (bbox[4] - bbox[2])
         IN  IF x1 < x2 /\ y1 < y2
             THEN <<(x2 - x1) * (y2 - y1), bbox_area>>
             ELSE <<0, 1>>

\* calculate_intersection: the ratio intersection_area / bbox_area as the pair
\* <<numerator, denominator>>; 0 is <<0, 1>>
calculate_intersection(r, bbox) ==
    IF r = None
    THEN <<0, 1>>
    ELSE LET x1 == Max(r[1], bbox[1])
             y1 == Max(r[2], bbox[2])
             x2 == Min(r[3], bbox[3])
             y2 == Min(r[4], bbox[4])
             bbox_area == (bbox[3] - bbox[1]) * (bbox[4] - bbox[2])
         IN  IF x1 < x2 /\ y1 < y2
             THEN <<(x2 - x1) * (y2 - y1), bbox_area>>
             ELSE <<0, 1>>

\* in_roi admitting a ratio equal to the threshold
InRoi_at_least(r, bbox) ==
    LET q == calculate_intersection(r, bbox)
    IN  100 * q[1] >= ROI_INTERSECTION_THRESHOLD * q[2]

\* in_roi = intersection > Config.ROI_INTERSECTION_THRESHOLD (area positive here)
InRoi(r, bbox) ==
    LET q == calculate_intersection(r, bbox)
    IN  100 * q[1] > ROI_INTERSECTION_THRESHOLD * q[2]

-----------------------------------------------------------------------------
(* core/detector.py: what detect_and_track can return *)

\* the rectangle cv2.dnn.NMSBoxes sees: it reads a box as (x, y, width,
\* height), and apply_nms hands it (x1, y1, x2, y2)
NmsRect(b) == <<b[1], b[2], b[1] + b[3], b[2] + b[4]>>

Area(b) == (b[3] - b[1]) * (b[4] - b[2])

IntersectionArea(a, b) ==
    LET w == Min(a[3], b[3]) - Max(a[1], b[1])
        h == Min(a[4], b[4]) - Max(a[2], b[2])
    IN  IF w > 0 /\ h > 0 THEN w * h ELSE 0

\* NMSBoxes drops the lower-scored of two boxes whose overlap exceeds iou_threshold
Overlap(a, b) ==
    LET i == IntersectionArea(NmsRect(a), NmsRect(b))
        u == Area(NmsRect(a)) + Area(NmsRect(b)) - i
    IN  100 * i > IOU_THRESHOLD * u

\* cv2.dnn.NMSBoxes sorts the boxes scored above conf_threshold by descending
\* score, equal scores in list order (a stable sort): the list positions in
\* that order
ScoreOrder(detections) ==
    LET cand == {i \in 1..Len(detections) : detections[i][2] > CONF_THRESHOLD}
        before(i, j) == \/ detections[i][2] > detections[j][2]
                        \/ (detections[i][2] = detections[j][2] /\ i < j)
    IN  [k \in 1..Cardinality(cand) |->
            CHOOSE i \in cand : Cardinality({j \in cand : before(j, i)}) = k - 1]

\* NMSBoxes' pass over the first n candidates: a candidate is kept when it
\* overlaps no box kept before it by more than iou_threshold
RECURSIVE NMSKept(_, _, _)
NMSKept(detections, order, n) ==
    IF n = 0
    THEN <<>>
    ELSE LET kept == NMSKept(detections, order, n - 1)
             idx == order[n]
         IN  IF \A k \in 1..Len(kept) : ~Overlap(detections[idx][1], detections[kept[k]][1])
             THEN Append(kept, idx)
             ELSE kept

\* cv2.dnn.NMSBoxes(boxes, scores, conf_threshold, iou_threshold): the kept
\* list positions
NMSBoxes(detections) ==
    LET order == ScoreOrder(detections)
    IN  NMSKept(detections, order, Len(order))

\* apply_nms(detections): a detection is (bbox, confidence); its track_id is
\* its place in the returned list.  With nothing kept NMSBoxes returns an empty
\* tuple, `.flatten()` raises and the except clause returns the list as it came.
apply_nms(detections) ==
    IF detections = <<>>
    THEN <<>>
    ELSE LET indices == NMSBoxes(detections)
         IN  IF indices = <<>>
             THEN detections
             ELSE [k \in 1..Len(indices) |-> detections[indices[k]]]

\* detect_and_track's results: plates above conf_threshold, in NMSBoxes' order
\* (descending confidence), no two of them overlapping
FrameLists ==
    {l \in UNION {[1..n -> FrameInputs] : n \in 0..MaxDets} :
        /\ \A i \in 1..Len(l) : l[i][2] > CONF_THRESHOLD
        /\ \A i, j \in 1..Len(l) :
              i < j => (l[i][2] >= l[j][2] /\ ~Overlap(l[i][1], l[j][1]))}

-----------------------------------------------------------------------------
(* core/detector.py: VehicleDetector.assign_wheels_to_vehicle.  A wheel is its
   'bbox', or None when the dict has no such key.  Centres are halves of
   integers, so the model holds every coordinate doubled. *)

Abs(a) == IF a >= 0 THEN a ELSE -a

RECURSIVE SumSeq(_)
SumSeq(q) == IF q = <<>> THEN 0 ELSE Head(q) + SumSeq(Tail(q))

\* 2 * wheel_center[0] and 2 * wheel_center[1]
WheelCenter2(wheel_bbox) ==
    <<wheel_bbox[1] + wheel_bbox[3], wheel_bbox[2] + wheel_bbox[4]>>

\* `wheel_center[1] > plate_y and vehicle_left <= wheel_center[0] <= vehicle_right`,
\* with vehicle_width = 6 * plate width around the plate's centre, the left
\* bound not below 0
InEnvelope(plate_bbox, wheel_bbox) ==
    LET c == WheelCenter2(wheel_bbox)
        plate_center_x2 == plate_bbox[1] + plate_bbox[3]
        vehicle_width == (plate_bbox[3] - plate_bbox[1]) * 6
        vehicle_left2 == Max(0, plate_center_x2 - vehicle_width)
        vehicle_right2 == plate_center_x2 + vehicle_width
    IN  /\ c[2] > 2 * plate_bbox[2]
        /\ vehicle_left2 <= c[1]
        /\ c[1] <= vehicle_right2

\* NearGroup comparing with the group's first wheel instead of its mean
NearGroup_first_wheel(group, y2, dist2) ==
    Abs(y2 - group[1]) < dist2

\* `abs(wheel_center[1] - group_y) < MAX_VERTICAL_DIST` with group_y the mean
\* of the group's y: y2 and the group are doubled, dist2 is 2 * MAX_VERTICAL_DIST,
\* and both sides are multiplied by len(group)
NearGroup(group, y2, dist2) ==
    Abs(y2 * Len(group) - SumSeq(group)) < dist2 * Len(group)

\* the wheel joins the first group it is near to, or starts a new one
AddToGroups(axle_groups, y2, dist2) ==
    LET near == {g \in 1..Len(axle_groups) : NearGroup(axle_groups[g], y2, dist2)}
    IN  IF near # {}
        THEN LET g == CHOOSE x \in near : \A h \in near : x <= h
             IN  [axle_groups EXCEPT ![g] = Append(@, y2)]
        ELSE Append(axle_groups, <<y2>>)

\* the loop over wheels: axle_groups after the wheels of the list, in order
RECURSIVE GroupWheels(_, _, _, _)
GroupWheels(plate_bbox, wheels, axle_groups, dist2) ==
    IF wheels = <<>>
    THEN axle_groups
    ELSE GroupWheels(plate_bbox, Tail(wheels),
             IF InEnvelope(plate_bbox, Head(wheels))
             THEN AddToGroups(axle_groups, WheelCenter2(Head(wheels))[2], dist2)
             ELSE axle_groups,
             dist2)

\* wheel['bbox'] raises KeyError (and plate_bbox[0] TypeError when plate_bbox is None)
Malformed(wheels) == \E i \in 1..Len(wheels) : wheels[i] = None

\* assign_wheels_to_vehicle without the cap at 8
assign_wheels_to_vehicle_uncapped(plate_bbox, wheels) ==
    IF plate_bbox = None \/ Malformed(wheels)
    THEN 2
    ELSE LET plate_height == plate_bbox[4] - plate_bbox[2]
             axle_groups == GroupWheels(plate_bbox, wheels, <<>>, plate_height)
         IN  Max(2, Len(axle_groups))

\* assign_wheels_to_vehicle with MAX_VERTICAL_DIST = plate_height
assign_wheels_to_vehicle_full_height(plate_bbox, wheels) ==
    IF plate_bbox = None \/ Malformed(wheels)
    THEN 2
    ELSE LET plate_height == plate_bbox[4] - plate_bbox[2]
             axle_groups == GroupWheels(plate_bbox, wheels, <<>>, 2 * plate_height)
         IN  Min(Max(2, Len(axle_groups)), 8)

\* assign_wheels_to_vehicle: the number of groups, at least 2 and at most 8;
\* 2 when an exception was raised.  MAX_VERTICAL_DIST = plate_height * 0.5,
\* so its double is plate_height.
assign_wheels_to_vehicle(plate_bbox, wheels) ==
    IF plate_bbox = None \/ Malformed(wheels)
    THEN 2
    ELSE LET plate_height == plate_bbox[4] - plate_bbox[2]
             axle_groups == GroupWheels(plate_bbox, wheels, <<>>, plate_height)
         IN  Min(Max(2, Len(axle_groups)), 8)

-----------------------------------------------------------------------------
(* database/db_operations.py: DatabaseManager *)

\* add_vehicle_detection overwriting the row on an equal confidence too
add_vehicle_detection_on_equal(rows, track_id, license_plate, confidence, frame_path, axle_count) ==
    LET found == {i \in 1..Len(rows) : rows[i].track_id = track_id}
    IN  IF found # {}
        THEN LET i == CHOOSE j \in found : \A h \in found : j <= h
                 e1 == [rows[i] EXCEPT !.total_detections = @ + 1]
                 e2 == IF confidence >= e1.confidence
                       THEN [e1 EXCEPT !.confidence = confidence,
                                       !.license_plate = license_plate,
                                       !.best_frame_path = frame_path,
                                       !.axle_count = axle_count]
                       ELSE e1
             IN  [rows EXCEPT ![i] = e2]
        ELSE Append(rows, [track_id |-> track_id,
                           license_plate |-> license_plate,
                           confidence |-> confidence,
                           best_frame_path |-> frame_path,
                           axle_count |-> axle_count,
                           total_detections |-> 1])

\* add_vehicle_detection adding a row without looking for an existing one
add_vehicle_detection_insert_only(rows, track_id, license_plate, confidence, frame_path, axle_count) ==
    Append(rows, [track_id |-> track_id,
                  license_plate |-> license_plate,
                  confidence |-> confidence,
                  best_frame_path |-> frame_path,
                  axle_count |-> axle_count,
                  total_detections |-> 1])

\* add_vehicle_detection, committed: the first row of the track_id is
\* updated, or a row is added
add_vehicle_detection(rows, track_id, license_plate, confidence, frame_path, axle_count) ==
    LET found == {i \in 1..Len(rows) : rows[i].track_id = track_id}
    IN  IF found # {}
        THEN LET i == CHOOSE j \in found : \A h \in found : j <= h
                 e1 == [rows[i] EXCEPT !.total_detections = @ + 1]
                 e2 == IF confidence > e1.confidence
                       THEN [e1 EXCEPT !.confidence = confidence,
                                       !.license_plate = license_plate,
                                       !.best_frame_path = frame_path,
                                       !.axle_count = axle_count]
                       ELSE e1
             IN  [rows EXCEPT ![i] = e2]
        ELSE Append(rows, [track_id |-> track_id,
                           license_plate |-> license_plate,
                           confidence |-> confidence,
                           best_frame_path |-> frame_path,
                           axle_count |-> axle_count,
                           total_detections |-> 1])

-----------------------------------------------------------------------------
(* web/backend/websocket.py: ConnectionManager *)

\* no broadcast in progress
IdleBroadcast ==
    [state |-> "idle", type |-> "none", copy |-> <<>>, pending |-> <<>>,
     received |-> {}, failed |-> {}]

\* the requests /video_feed is serving: each runs its own gen_frames over the
\* one VideoCamera
Consumers == {"c1", "c2"}

\* a gen_frames coroutine suspended at its yield, get_frame's locals unset
IdleTask == [pc |-> "idle", dets |-> <<>>, track |-> 0]

\* the event loop runs no coroutine
NoTask == "none"

\* before any request: every coroutine idle, the event loop free
NoTasks ==
    /\ tasks = [c \in Consumers |-> IdleTask]
    /\ running = NoTask

\* what redis reports as the TTL of a key that does not exist, and of a key
\* that has no expiry
NoKey == -2
NoExpiry == -1

\* RateLimiter.__init__ against an empty redis: no counter, no request
NoRequests ==
    /\ rate_key = [value |-> None, ttl |-> NoKey]
    /\ limiter = [pc |-> "idle", current |-> None]

\* ConnectionManager.__init__
NoConnections ==
    /\ active_connections = <<>>
    /\ last_vehicle_data = None
    /\ broadcast = IdleBroadcast

\* disconnect: `if websocket in self.active_connections: remove`
disconnect(conns, websocket) ==
    SelectSeq(conns, LAMBDA c : c # websocket)

-----------------------------------------------------------------------------
(* web/backend/main.py: VideoCamera.get_frame *)

\* one more process_plate call for track_id k
Count(f, k) ==
    [i \in 1..Max(Len(f), k + 1) |->
        (IF i <= Len(f) THEN f[i] ELSE 0) + (IF i = k + 1 THEN 1 ELSE 0)]

Calls(k) == IF k + 1 <= Len(ocr_calls) THEN ocr_calls[k + 1] ELSE 0

\* the step of the loop body that fails, if one does: extract_plate returns
\* None, save_image returns None, add_vehicle_detection rolls back
Faults == {"none", "crop", "save", "db"}

\* the loop body calling update_plate with whatever process_plate returned
handle_detection_any_reading(trs, nid, rows, calls, r, det, t, img, r1, r2, fault) ==
    LET bbox == det[1]
        axle_count == det[3]
        g == get_track(trs, nid, bbox, det[2], axle_count, t)
        i == g.ret
        track == g.tracks[i].val
        in_roi == InRoi(r, bbox)
        quiet == [tracks |-> g.tracks, next_id |-> g.next_id, db |-> rows,
                  ocr_calls |-> calls, raised |-> FALSE]
    IN  IF ~should_process(track, in_roi) \/ fault = "crop"
        THEN quiet
        ELSE LET read == process_plate(r1, r2)
                 text == read[1]
                 confidence == read[2]
                 called == [quiet EXCEPT !.ocr_calls = Count(calls, track.track_id)]
             IN  IF FALSE
                 THEN called
                 ELSE LET u == update_plate(track, text, confidence, img)
                          updated == [called EXCEPT !.tracks[i].val = u.track]
                          frame_path == <<text, track.track_id, t>>
                      IN  IF ~u.ret \/ fault = "save"
                          THEN updated
                          ELSE [updated EXCEPT
                                  !.tracks[i].val.frame_path = frame_path,
                                  !.db = IF fault # "db"
                                         THEN add_vehicle_detection(rows, track.track_id, text,
                                                  confidence, frame_path, axle_count)
                                         ELSE rows,
                                  !.raised = TRUE]

\* handle_detection writing the track after every update of its plate
handle_detection_every_update(trs, nid, rows, calls, r, det, t, img, r1, r2, fault) ==
    LET bbox == det[1]
        axle_count == det[3]
        g == get_track(trs, nid, bbox, det[2], axle_count, t)
        i == g.ret
        track == g.tracks[i].val
        in_roi == InRoi(r, bbox)
        quiet == [tracks |-> g.tracks, next_id |-> g.next_id, db |-> rows,
                  ocr_calls |-> calls, raised |-> FALSE]
    IN  IF ~should_process(track, in_roi) \/ fault = "crop"
        THEN quiet
        ELSE LET read == process_plate(r1, r2)
                 text == read[1]
                 confidence == read[2]
                 called == [quiet EXCEPT !.ocr_calls = Count(calls, track.track_id)]
             IN  IF ~(text # <<>> /\ confidence > 0)
                 THEN called
                 ELSE LET u == update_plate(track, text, confidence, img)
                          updated == [called EXCEPT !.tracks[i].val = u.track]
                          frame_path == <<text, track.track_id, t>>
                      IN  IF fault = "save"
                          THEN updated
                          ELSE [updated EXCEPT
                                  !.tracks[i].val.frame_path = frame_path,
                                  !.db = IF fault # "db"
                                         THEN add_vehicle_detection(rows, track.track_id, text,
                                                  confidence, frame_path, axle_count)
                                         ELSE rows,
                                  !.raised = TRUE]

\* The body of get_frame's loop for one detection.  The environment decides
\* r1 and r2 (what the engines read) and fault.  add_vehicle_detection is a plain
\* function returning a bool, so the `await` of its result raises TypeError
\* once it has run: raised tells that the frame's loop ends there.
handle_detection(trs, nid, rows, calls, r, det, t, img, r1, r2, fault) ==
    LET bbox == det[1]
        axle_count == det[3]
        g == get_track(trs, nid, bbox, det[2], axle_count, t)
        i == g.ret
        track == g.tracks[i].val
        in_roi == InRoi(r, bbox)
        quiet == [tracks |-> g.tracks, next_id |-> g.next_id, db |-> rows,
                  ocr_calls |-> calls, raised |-> FALSE]
    IN  IF ~should_process(track, in_roi) \/ fault = "crop"
        THEN quiet
        ELSE LET read == process_plate(r1, r2)
                 text == read[1]
                 confidence == read[2]
                 called == [quiet EXCEPT !.ocr_calls = Count(calls, track.track_id)]
             IN  IF ~(text # <<>> /\ confidence > 0)
                 THEN called
                 ELSE LET u == update_plate(track, text, confidence, img)
                          updated == [called EXCEPT !.tracks[i].val = u.track]
                          frame_path == <<text, track.track_id, t>>
                      IN  IF ~u.ret \/ fault = "save"
                          THEN updated
                          ELSE [updated EXCEPT
                                  !.tracks[i].val.frame_path = frame_path,
                                  !.db = IF fault # "db"
                                         THEN add_vehicle_detection(rows, track.track_id, text,
                                                  confidence, frame_path, axle_count)
                                         ELSE rows,
                                  !.raised = TRUE]

\* the state after VideoCamera.__init__ / VehicleTracker.__init__
Start(r) ==
    /\ tracks = <<>>
    /\ next_id = 0
    /\ now = 0
    /\ roi = r
    /\ frame_count = 0
    /\ pc = "idle"
    /\ dets = <<>>
    /\ db = <<>>
    /\ ocr_calls = <<>>
    /\ assigned = {}
    /\ call = [op |-> "none"]
    /\ log = <<>>
    /\ NoConnections
    /\ frames_read = 0
    /\ NoTasks
    /\ NoRequests

\* a second passes
Tick(cap) ==
    /\ now < cap
    /\ now' = now + 1
    /\ call' = [op |-> "tick"]
    /\ UNCHANGED <<ws_vars, rl_vars, loop_vars, frames_read, tracks, next_id, roi, frame_count, pc, dets, db, ocr_calls,
                   assigned, log>>

\* get_frame passing a frame through without reading it from the capture
GetFrameSkip_without_read ==
    /\ pc = "idle"
    /\ frame_count < MaxFrames
    /\ (frame_count + 1) % SKIP_FRAMES # 0
    /\ frame_count' = frame_count + 1
    /\ call' = [op |-> "get_frame"]
    /\ UNCHANGED <<ws_vars, rl_vars, loop_vars, frames_read, tracks, next_id, now, roi, pc, dets, db, ocr_calls,
                   assigned, log>>

\* get_frame on a frame the cadence passes through
GetFrameSkip ==
    /\ pc = "idle"
    /\ frame_count < MaxFrames
    /\ (frame_count + 1) % SKIP_FRAMES # 0
    /\ frame_count' = frame_count + 1
    /\ frames_read' = frames_read + 1
    /\ call' = [op |-> "get_frame"]
    /\ UNCHANGED <<ws_vars, rl_vars, loop_vars, tracks, next_id, now, roi, pc, dets, db, ocr_calls, assigned, log>>

\* get_frame on a frame it processes: the detector's results
GetFrameDetect(l) ==
    /\ pc = "idle"
    /\ frame_count < MaxFrames
    /\ (frame_count + 1) % SKIP_FRAMES = 0
    /\ frame_count' = frame_count + 1
    /\ frames_read' = frames_read + 1
    /\ dets' = l
    /\ pc' = "loop"
    /\ call' = [op |-> "get_frame"]
    /\ UNCHANGED <<ws_vars, rl_vars, loop_vars, tracks, next_id, now, roi, db, ocr_calls, assigned, log>>

\* one turn of the loop over the detections
HandleDetection(r1, r2, fault) ==
    /\ pc = "loop"
    /\ dets # <<>>
    /\ LET h == handle_detection(tracks, next_id, db, ocr_calls, roi, Head(dets), now,
                                 frame_count, r1, r2, fault)
       IN  /\ tracks' = h.tracks
           /\ next_id' = h.next_id
           /\ db' = h.db
           /\ ocr_calls' = h.ocr_calls
           /\ assigned' = assigned \cup {h.tracks[j].key : j \in 1..Len(h.tracks)}
           /\ dets' = IF h.raised THEN <<>> ELSE Tail(dets)
    /\ call' = [op |-> "detection"]
    /\ UNCHANGED <<ws_vars, rl_vars, loop_vars, frames_read, now, roi, frame_count, pc, log>>

\* the loop is over, or the except clause was entered: the frame is encoded
GetFrameReturn ==
    /\ pc = "loop"
    /\ dets = <<>>
    /\ pc' = "idle"
    /\ call' = [op |-> "return"]
    /\ UNCHANGED <<ws_vars, rl_vars, loop_vars, frames_read, tracks, next_id, now, roi, frame_count, dets, db, ocr_calls,
                   assigned, log>>

\* POST /api/roi, served between two get_frame calls
SetRoi(r) ==
    /\ pc = "idle"
    /\ roi # r
    /\ roi' = r
    /\ call' = [op |-> "set_roi"]
    /\ UNCHANGED <<ws_vars, rl_vars, loop_vars, frames_read, tracks, next_id, now, frame_count, pc, dets, db, ocr_calls,
                   assigned, log>>

Init == \E r \in Rois : Start(r)

Next ==
    \/ GetFrameSkip
    \/ \E l \in FrameLists : GetFrameDetect(l)
    \/ \E r1 \in TessReadings, r2 \in EasyReadings, fault \in Faults :
          HandleDetection(r1, r2, fault)
    \/ GetFrameReturn
    \/ \E r \in Rois : SetRoi(r)
    \/ Tick(MaxFrameTime)

Spec == Init /\ [][Next]_vars

\* C6: over any sequence of frames, process_plate is invoked at most
\* max_ocr_attempts times for any one track, whatever the recognizers return.
C6_OcrCallsBounded ==
    \A i \in 1..Len(tracks) :
        Calls(tracks[i].val.track_id) <= tracks[i].val.max_ocr_attempts

\* C7: in every state the frame pipeline reaches, each track has
\* ocr_attempts <= max_ocr_attempts, and a track whose ocr_attempts equals
\* max_ocr_attempts is LOCKED whatever its best confidence.
C7_AttemptsBounded ==
    \A i \in 1..Len(tracks) :
        /\ tracks[i].val.ocr_attempts <= tracks[i].val.max_ocr_attempts
        /\ tracks[i].val.ocr_attempts = tracks[i].val.max_ocr_attempts
              => tracks[i].val.state = "LOCKED"

\* a track used both attempts without passing the lock threshold and is LOCKED
C7_Witness ==
    \E i \in 1..Len(tracks) :
        /\ tracks[i].val.ocr_attempts = tracks[i].val.max_ocr_attempts
        /\ tracks[i].val.best_ocr_confidence <= OCR_CONFIDENCE_THRESHOLD
        /\ tracks[i].val.state = "LOCKED"
        /\ Calls(tracks[i].val.track_id) >= tracks[i].val.max_ocr_attempts

\* the business fields of a track: every field but last_seen
Business(tr) ==
    <<tr.track_id, tr.license_plate, tr.best_ocr_confidence, tr.processing_complete,
      tr.state, tr.last_bbox, tr.first_seen_bbox, tr.ocr_attempts, tr.max_ocr_attempts,
      tr.best_plate_image, tr.detection_confidence, tr.max_axle_count, tr.frame_path>>

\* C11: once a track is LOCKED, no later step of the frame pipeline changes
\* any of its fields other than last_seen.
C11_LockedImmutable ==
    [][\A i \in 1..Len(tracks), j \in 1..Len(tracks') :
          (tracks[i].key = tracks'[j].key /\ tracks[i].val.state = "LOCKED")
             => Business(tracks'[j].val) = Business(tracks[i].val)]_vars

\* C12: a track's record is written to the store only when its best
\* recognition confidence exceeds Config.SAVE_THRESHOLD; a track that locked
\* with a best confidence at or below it has no row.
C12_SavedAboveSaveThreshold ==
    /\ \A k \in 1..Len(db) : db[k].confidence > SAVE_THRESHOLD
    /\ \A i \in 1..Len(tracks) :
          (tracks[i].val.state = "LOCKED"
              /\ tracks[i].val.best_ocr_confidence <= SAVE_THRESHOLD)
             => \A k \in 1..Len(db) : db[k].track_id # tracks[i].val.track_id

\* the rows of the store written for track_id k
RowsOf(k) == {r \in 1..Len(db) : db[r].track_id = k}

\* C13 as claimed: every LOCKED track has been written to the store exactly
\* once, whether it locked by confidence or by exhausting its attempts.
C13_LockedEmittedOnce ==
    \A i \in 1..Len(tracks) :
        tracks[i].val.state = "LOCKED" =>
            /\ Cardinality(RowsOf(tracks[i].val.track_id)) = 1
            /\ \A r \in RowsOf(tracks[i].val.track_id) : db[r].total_detections = 1

\* C13 as amended: every track is written at most once; a row belongs to a
\* track that locked by confidence and holds that track's plate text and best
\* confidence and an axle count the track has seen; a track that locked by
\* exhaustion has no row.
C13_EmittedAtMostOnce ==
    /\ \A r \in 1..Len(db) :
          /\ db[r].total_detections = 1
          /\ Cardinality(RowsOf(db[r].track_id)) = 1
          /\ \E i \in 1..Len(tracks) :
                /\ tracks[i].val.track_id = db[r].track_id
                /\ tracks[i].val.state = "LOCKED"
                /\ tracks[i].val.best_ocr_confidence > OCR_CONFIDENCE_THRESHOLD
                /\ db[r].confidence = tracks[i].val.best_ocr_confidence
                /\ db[r].license_plate = tracks[i].val.license_plate
                /\ db[r].axle_count <= tracks[i].val.max_axle_count
    /\ \A i \in 1..Len(tracks) :
          (tracks[i].val.state = "LOCKED"
              /\ tracks[i].val.best_ocr_confidence <= OCR_CONFIDENCE_THRESHOLD)
             => RowsOf(tracks[i].val.track_id) = {}

\* one track locked by exhaustion and has no row, another locked by confidence
\* and has its row, and a later detection has matched the written track
C13_Witness ==
    /\ \E i \in 1..Len(tracks) :
          /\ tracks[i].val.state = "LOCKED"
          /\ tracks[i].val.ocr_attempts = tracks[i].val.max_ocr_attempts
          /\ tracks[i].val.best_ocr_confidence <= OCR_CONFIDENCE_THRESHOLD
          /\ RowsOf(tracks[i].val.track_id) = {}
    /\ \E i \in 1..Len(tracks) :
          /\ tracks[i].val.state = "LOCKED"
          /\ RowsOf(tracks[i].val.track_id) # {}

\* the share of bbox inside the ROI exceeds ROI_INTERSECTION_THRESHOLD
AboveRoiThreshold(r, bbox) ==
    /\ r # None
    /\ 100 * IntersectionArea(r, bbox) > ROI_INTERSECTION_THRESHOLD * Area(bbox)

\* C17: a plate detection whose intersection ratio with the ROI is not
\* strictly greater than ROI_INTERSECTION_THRESHOLD triggers no recognition
\* call and no write to the store, and leaves ocr_attempts, license_plate and
\* state of every track as they were (a track it creates starts untouched),
\* however high the detector confidence is.
C17_OutsideRoiNoRecognition ==
    [][(pc = "loop" /\ call'.op = "detection" /\ ~AboveRoiThreshold(roi, Head(dets)[1])) =>
          /\ ocr_calls' = ocr_calls
          /\ db' = db
          /\ \A j \in 1..Len(tracks') :
                IF \E i \in 1..Len(tracks) : tracks[i].key = tracks'[j].key
                THEN \A i \in 1..Len(tracks) :
                        tracks[i].key = tracks'[j].key =>
                           /\ tracks'[j].val.ocr_attempts = tracks[i].val.ocr_attempts
                           /\ tracks'[j].val.license_plate = tracks[i].val.license_plate
                           /\ tracks'[j].val.state = tracks[i].val.state
                ELSE /\ tracks'[j].val.ocr_attempts = 0
                     /\ tracks'[j].val.license_plate = SCANNING
                     /\ tracks'[j].val.state = "TRACKING"]_vars

\* the detection just handled has exactly a fifth of its box inside the ROI and
\* a detector confidence above 0.5; its track, with both attempts left, was
\* not read
C17_Witness ==
    /\ call.op = "detection"
    /\ roi = <<122, 0, 300, 100>>
    /\ \E i \in 1..Len(tracks) :
          /\ tracks[i].val.last_bbox = BoxQ
          /\ tracks[i].val.detection_confidence > SHOULD_PROCESS_CONFIDENCE
          /\ tracks[i].val.state = "TRACKING"
          /\ tracks[i].val.ocr_attempts = 0
          /\ Calls(tracks[i].val.track_id) = 0

-----------------------------------------------------------------------------
(* Direct callers of VehicleTracker and VehicleTrack: any sequence of method
   calls, as a unit test makes them.  `call` holds the most recent call. *)

\* tracker.get_track(detection_id, bbox, detection_confidence, axle_count)
GetTrackCall(bbox, detection_confidence, axle_count, cap) ==
    LET r == get_track(tracks, next_id, bbox, detection_confidence, axle_count, now)
        created == r.next_id # next_id
    IN  /\ r.next_id <= cap
        /\ tracks' = r.tracks
        /\ next_id' = r.next_id
        /\ assigned' = IF created THEN assigned \cup {r.tracks[r.ret].val.track_id}
                       ELSE assigned
        /\ call' = [op |-> "get_track",
                    bbox |-> bbox,
                    detection_confidence |-> detection_confidence,
                    axle_count |-> axle_count,
                    created |-> created,
                    ret |-> r.ret]
        /\ UNCHANGED <<ws_vars, rl_vars, loop_vars, frames_read, now, roi, frame_count, pc, dets, db, ocr_calls, log>>

\* track.should_process(in_roi) on the track at position i
ShouldProcessCall(i, in_roi) ==
    /\ call' = [op |-> "should_process",
                pos |-> i,
                in_roi |-> in_roi,
                ret |-> should_process(tracks[i].val, in_roi)]
    /\ UNCHANGED <<ws_vars, rl_vars, loop_vars, frames_read, tracks, next_id, now, roi, frame_count, pc, dets, db, ocr_calls,
                   assigned, log>>

\* track.update_plate(text, confidence, plate_image) on the track at position i
UpdatePlateCall(i, text, confidence, plate_image) ==
    LET r == update_plate(tracks[i].val, text, confidence, plate_image)
    IN  /\ tracks[i].val.ocr_attempts < tracks[i].val.max_ocr_attempts + ExtraCalls
        /\ tracks' = [tracks EXCEPT ![i].val = r.track]
        /\ call' = [op |-> "update_plate",
                    pos |-> i,
                    text |-> text,
                    confidence |-> confidence,
                    ret |-> r.ret]
        /\ UNCHANGED <<ws_vars, rl_vars, loop_vars, frames_read, next_id, now, roi, frame_count, pc, dets, db, ocr_calls, assigned>>

\* tracker.cleanup_old_tracks(max_age)
CleanupCall(max_age) ==
    /\ tracks' = cleanup_old_tracks(tracks, max_age, now)
    /\ call' = [op |-> "cleanup_old_tracks", max_age |-> max_age]
    /\ UNCHANGED <<ws_vars, rl_vars, loop_vars, frames_read, next_id, now, roi, frame_count, pc, dets, db, ocr_calls, assigned, log>>

-----------------------------------------------------------------------------
(* Matching harness: get_track called with any of MatchInputs, time passing *)

MatchNext ==
    \/ \E d \in MatchInputs : GetTrackCall(d[1], d[2], d[3], MaxIds) /\ UNCHANGED log
    \/ Tick(MaxMatchTime)

MatchSpec == Start(None) /\ [][MatchNext]_vars

\* the positions of the tracks whose last box centre is at most POSITION_THRESHOLD
\* from the centre of bbox
Within(trs, bbox) ==
    {i \in 1..Len(trs) :
        /\ trs[i].val.last_bbox # None
        /\ Dist2x4(bbox, trs[i].val.last_bbox)
              <= 4 * POSITION_THRESHOLD * POSITION_THRESHOLD}

First(S) == CHOOSE j \in S : \A h \in S : j <= h

\* C1: get_track returns an existing track, and creates none, whenever some
\* track's last box centre is within 100 px (distance <= 100) of the new box
\* centre; it creates a track only when every track is further than 100 px.
C1_MatchWithinThreshold ==
    [][call'.op = "get_track" =>
        LET within == Within(tracks, call'.bbox)
        IN  /\ within # {} =>
                  /\ ~call'.created
                  /\ call'.ret \in 1..Len(tracks)
                  /\ Len(tracks') = Len(tracks)
            /\ call'.created => within = {}]_vars

\* C2: with several tracks within POSITION_THRESHOLD of the detection, get_track
\* returns the first of them in iteration order, moves exactly that one to the
\* new box, and leaves every other track and next_id unchanged.
C2_FirstWithinThreshold ==
    [][call'.op = "get_track" =>
        LET within == Within(tracks, call'.bbox)
        IN  Cardinality(within) >= 2 =>
              /\ call'.ret = First(within)
              /\ next_id' = next_id
              /\ Len(tracks') = Len(tracks)
              /\ tracks'[First(within)].val.last_bbox = call'.bbox
              /\ \A i \in 1..Len(tracks) : i # First(within) => tracks'[i] = tracks[i]]_vars

\* C2, read with the test the code applies (distance < 100): the first track
\* of the iteration that passes it is the one returned, nearer ones
\* notwithstanding, and nothing else changes.
C2_FirstStrictMatch ==
    [][call'.op = "get_track" =>
        LET hits == {i \in 1..Len(tracks) : Matches(tracks[i].val, call'.bbox)}
        IN  Cardinality(hits) >= 2 =>
              /\ call'.ret = First(hits)
              /\ next_id' = next_id
              /\ Len(tracks') = Len(tracks)
              /\ tracks'[First(hits)].val.last_bbox = call'.bbox
              /\ \A i \in 1..Len(tracks) : i # First(hits) => tracks'[i] = tracks[i]]_vars

\* C4: get_track leaves the returned track with the running maxima of detector
\* confidence and axle count, the new box as last_bbox and the current time as
\* last_seen; first_seen_bbox is the box of the creating call and never changes.
C4_UpdatePosition ==
    [][/\ call'.op = "get_track" =>
            LET new == tracks'[call'.ret].val
                prevConf == IF call'.created THEN 0
                            ELSE tracks[call'.ret].val.detection_confidence
                prevAxles == IF call'.created THEN 2
                             ELSE tracks[call'.ret].val.max_axle_count
            IN  /\ new.detection_confidence = Max(prevConf, call'.detection_confidence)
                /\ new.max_axle_count = Max(prevAxles, call'.axle_count)
                /\ new.last_bbox = call'.bbox
                /\ new.last_seen = now'
                /\ call'.created => new.first_seen_bbox = call'.bbox
       /\ \A i \in 1..Len(tracks), j \in 1..Len(tracks') :
            tracks[i].key = tracks'[j].key =>
               /\ tracks[i].val.first_seen_bbox # None
               /\ tracks'[j].val.first_seen_bbox = tracks[i].val.first_seen_bbox]_vars

\* a matching call brought a lower confidence and fewer axles than the track
\* already had, to a different box, later than the track was made
C4_Witness ==
    /\ call.op = "get_track"
    /\ ~call.created
    /\ tracks[call.ret].val.detection_confidence > call.detection_confidence
    /\ tracks[call.ret].val.max_axle_count > call.axle_count
    /\ tracks[call.ret].val.first_seen_bbox # call.bbox
    /\ now > 0

-----------------------------------------------------------------------------
(* Registry harness: get_track, should_process, update_plate and
   cleanup_old_tracks called in any order on one VehicleTracker *)

RegistryNext ==
    \/ \E d \in RegistryInputs : GetTrackCall(d[1], d[2], d[3], MaxIds) /\ UNCHANGED log
    \/ \E i \in 1..Len(tracks), in_roi \in BOOLEAN : ShouldProcessCall(i, in_roi)
    \/ \E i \in 1..Len(tracks), r \in RegistryReadings :
          UpdatePlateCall(i, r[1], r[2], 1) /\ UNCHANGED log
    \/ \E m \in MaxAges : CleanupCall(m)
    \/ Tick(MaxTime)

RegistrySpec == Start(None) /\ [][RegistryNext]_vars

\* every entry sits under its own track_id, below next_id, and no key twice
IdsConsistent ==
    /\ \A i \in 1..Len(tracks) :
          /\ tracks[i].val.track_id = tracks[i].key
          /\ tracks[i].key < next_id
    /\ \A i, j \in 1..Len(tracks) : tracks[i].key = tracks[j].key => i = j
    /\ \A a \in assigned : a < next_id

\* a key that enters the registry was never assigned before and exceeds every
\* id assigned before
IdsFresh ==
    \A k \in Keys(tracks') \ Keys(tracks) :
        /\ k \notin assigned
        /\ \A a \in assigned : k > a

\* C3: over any sequence of get_track and cleanup_old_tracks calls every new
\* track gets an id strictly greater than every id assigned before (no reuse,
\* also after eviction), and every entry satisfies tracks[k].track_id = k < next_id.
C3_IdsMonotone == [](IdsConsistent) /\ [][IdsFresh]_vars

\* a track was created after an earlier one had been evicted
C3_Witness ==
    /\ call.op = "get_track"
    /\ call.created
    /\ \E a \in assigned : a \notin Keys(tracks)
    /\ \E a \in assigned : a < tracks[call.ret].key

StateAgrees ==
    \A i \in 1..Len(tracks) :
        /\ tracks[i].val.state \in {"TRACKING", "LOCKED"}
        /\ tracks[i].val.processing_complete <=> tracks[i].val.state = "LOCKED"

StateMonotone ==
    /\ \A j \in 1..Len(tracks') :
          tracks'[j].key \notin Keys(tracks) => tracks'[j].val.state = "TRACKING"
    /\ \A i \in 1..Len(tracks), j \in 1..Len(tracks') :
          (tracks[i].key = tracks'[j].key /\ tracks[i].val.state = "LOCKED")
             => tracks'[j].val.state = "LOCKED"

\* C10: a track starts in TRACKING; once LOCKED, no get_track, should_process,
\* update_plate or cleanup call returns it to TRACKING; processing_complete is
\* true exactly when state is LOCKED.
C10_StateMonotone == [](StateAgrees) /\ [][StateMonotone]_vars

\* a LOCKED track has since been matched by get_track while another track is
\* still TRACKING
C10_Witness ==
    /\ call.op = "get_track"
    /\ ~call.created
    /\ tracks[call.ret].val.state = "LOCKED"
    /\ \E i \in 1..Len(tracks) : tracks[i].val.state = "TRACKING"

\* the track is older than max_age, or LOCKED and older than one second
Stale(tr, max_age) ==
    \/ now - tr.last_seen > max_age
    \/ (tr.state = "LOCKED" /\ now - tr.last_seen > 1)

\* C20: cleanup_old_tracks(max_age) removes exactly the tracks with
\* now - last_seen > max_age and the LOCKED tracks with now - last_seen > 1;
\* every other track stays, in its place and with every field unchanged, and
\* next_id is unchanged.
C20_CleanupExact ==
    [][call'.op = "cleanup_old_tracks" =>
          /\ tracks' = SelectSeq(tracks, LAMBDA e : ~Stale(e.val, call'.max_age))
          /\ next_id' = next_id
          /\ now' = now]_vars

\* after cleanup_old_tracks(2) a track seen two seconds ago and still TRACKING
\* and a LOCKED track seen one second ago are in the registry, and a track
\* assigned earlier is gone
C20_Witness ==
    /\ call.op = "cleanup_old_tracks"
    /\ call.max_age = MAX_TRACK_AGE
    /\ \E i \in 1..Len(tracks) :
          tracks[i].val.state = "TRACKING" /\ now - tracks[i].val.last_seen = MAX_TRACK_AGE
    /\ \E i \in 1..Len(tracks) :
          tracks[i].val.state = "LOCKED" /\ now - tracks[i].val.last_seen = 1
    /\ \E a \in assigned : a \notin Keys(tracks)

-----------------------------------------------------------------------------
(* Single-track harness: one fresh VehicleTrack, built with max_ocr_attempts
   in 1..MaxAttemptsCap and positioned once, then should_process and
   update_plate called in any order.  log holds the update_plate calls. *)

PlateInit ==
    \E m \in 1..MaxAttemptsCap, c \in DetConfs :
        /\ tracks = <<[key |-> 0, val |-> update_position(VehicleTrack(0, m, 0), BoxP, c, 2, 0)]>>
        /\ next_id = 1
        /\ now = 0
        /\ roi = None
        /\ frame_count = 0
        /\ pc = "idle"
        /\ dets = <<>>
        /\ db = <<>>
        /\ ocr_calls = <<>>
        /\ assigned = {0}
        /\ call = [op |-> "none"]
        /\ log = <<>>
        /\ NoConnections
        /\ frames_read = 0
        /\ NoTasks
        /\ NoRequests

PlateNext ==
    \/ \E in_roi \in BOOLEAN : ShouldProcessCall(1, in_roi)
    \/ \E r \in PlateReadings :
          /\ UpdatePlateCall(1, r[1], r[2], Len(log) + 1)
          /\ log' = Append(log, r)

PlateSpec == PlateInit /\ [][PlateNext]_vars

\* C5 as claimed: should_process returns true exactly when the track is not
\* locked, has attempts left, is in the ROI and its running-maximum detector
\* confidence exceeds Config.MIN_TRACK_CONFIDENCE.
C5_ThresholdIsConfig ==
    call.op = "should_process" =>
        LET tr == tracks[call.pos].val
        IN  call.ret <=> /\ tr.state # "LOCKED"
                         /\ tr.ocr_attempts < tr.max_ocr_attempts
                         /\ call.in_roi
                         /\ tr.detection_confidence > MIN_TRACK_CONFIDENCE

\* C5 as amended: the same, the threshold being the literal 0.5 of
\* should_process (Config.MIN_TRACK_CONFIDENCE is not read).
C5_ThresholdIsLiteral ==
    call.op = "should_process" =>
        LET tr == tracks[call.pos].val
        IN  call.ret <=> /\ tr.state # "LOCKED"
                         /\ tr.ocr_attempts < tr.max_ocr_attempts
                         /\ call.in_roi
                         /\ tr.detection_confidence > SHOULD_PROCESS_CONFIDENCE

\* should_process said yes to a track that has used one of its attempts
C5_Witness ==
    /\ call.op = "should_process"
    /\ call.ret
    /\ tracks[call.pos].val.ocr_attempts = 1

BestCall(l) ==
    CHOOSE i \in 1..Len(l) :
        \A j \in 1..Len(l) : l[j][2] <= l[i][2] /\ (j < i => l[j][2] < l[i][2])

\* max_ocr_attempts calls were made, every confidence at or below the threshold
Exhausted ==
    /\ Len(log) = tracks[1].val.max_ocr_attempts
    /\ \A i \in 1..Len(log) : log[i][2] <= OCR_CONFIDENCE_THRESHOLD

NeverDecreases ==
    tracks'[1].val.best_ocr_confidence >= tracks[1].val.best_ocr_confidence

KeepsBestCall ==
    Exhausted =>
        /\ tracks[1].val.state = "LOCKED"
        /\ tracks[1].val.license_plate = log[BestCall(log)][1]
        /\ tracks[1].val.best_ocr_confidence = log[BestCall(log)][2]

KeepsBestCallAboveZero ==
    Exhausted =>
        /\ tracks[1].val.state = "LOCKED"
        /\ tracks[1].val.best_ocr_confidence = log[BestCall(log)][2]
        /\ tracks[1].val.license_plate =
              IF log[BestCall(log)][2] > 0 THEN log[BestCall(log)][1] ELSE SCANNING

\* C9 as claimed: after max_ocr_attempts calls with every confidence at or
\* below the lock threshold the track is LOCKED and holds the (text,
\* confidence) of the earliest call with the highest confidence;
\* best_ocr_confidence never decreases.
C9_KeepsBestCall == [](KeepsBestCall) /\ [][NeverDecreases]_vars

\* C9 as amended: the same, when the highest confidence is above 0; when every
\* call has confidence 0 the track keeps its initial text "SCANNING..." with
\* best_ocr_confidence 0.
C9_KeepsBestCallAboveZero == [](KeepsBestCallAboveZero) /\ [][NeverDecreases]_vars

\* both attempts read confidence 30, with different texts, and the first is kept
C9_Witness ==
    /\ call.op = "update_plate"
    /\ Exhausted
    /\ log = << <<<<"A">>, 30>>, <<<<"B">>, 30>> >>
    /\ tracks[1].val.license_plate = <<"A">>
    /\ tracks[1].val.state = "LOCKED"

-----------------------------------------------------------------------------
(* Function harness: one call of process_plate, _clean_text or
   calculate_intersection with any argument of a bounded set.  `call` holds
   the arguments and what was returned. *)

\* texts are at most this long
MaxTextLen == 2

\* what an engine can be made to return to process_plate: (text, confidence)
FusionReadings ==
    {<<>>, <<"A", "1">>, <<"b", "-", "5">>} \X {0, 30, 40, 85}

\* the characters of the strings handed to _clean_text
CleanChars == {"a", "B", "7", "0", "1", "5", "8", "-", "U+01F0", "U+0138"}

\* the ASCII characters among them
AsciiChars == {"a", "B", "7", "0", "1", "5", "8", "-"}

CleanTexts == UNION {[1..n -> CleanChars] : n \in 0..MaxTextLen}

\* the ROI calculate_intersection reads: those of the pipeline and one whose
\* corners are the wrong way round
IntersectionRois == Rois \cup {<<100, 100, 0, 0>>}

\* the coordinates of the boxes handed to calculate_intersection
IntersectionCoords == {0, 50, 100, 150}

\* every (x1, y1, x2, y2) of them, the degenerate and inverted ones included
IntersectionBoxes ==
    IntersectionCoords \X IntersectionCoords \X IntersectionCoords \X IntersectionCoords

\* ocr_engine.process_plate(plate_img, track_id), the engines reading r1 and r2
ProcessPlateCall(r1, r2) ==
    /\ call.op = "none"
    /\ call' = [op |-> "process_plate", r1 |-> r1, r2 |-> r2,
                ret |-> process_plate(r1, r2)]
    /\ UNCHANGED <<ws_vars, rl_vars, loop_vars, frames_read, tracks, next_id, now, roi, frame_count, pc, dets, db, ocr_calls,
                   assigned, log>>

\* ocr_engine._clean_text(text)
CleanTextCall(text) ==
    /\ call.op = "none"
    /\ call' = [op |-> "_clean_text", text |-> text, ret |-> _clean_text(text)]
    /\ UNCHANGED <<ws_vars, rl_vars, loop_vars, frames_read, tracks, next_id, now, roi, frame_count, pc, dets, db, ocr_calls,
                   assigned, log>>

\* roi_manager.calculate_intersection(bbox)
CalculateIntersectionCall(bbox) ==
    /\ call.op = "none"
    /\ call' = [op |-> "calculate_intersection", bbox |-> bbox,
                ret |-> calculate_intersection(roi, bbox)]
    /\ UNCHANGED <<ws_vars, rl_vars, loop_vars, frames_read, tracks, next_id, now, roi, frame_count, pc, dets, db, ocr_calls,
                   assigned, log>>

FunctionInit == \E r \in IntersectionRois : Start(r)

FunctionNext ==
    \/ \E r1 \in FusionReadings, r2 \in FusionReadings : ProcessPlateCall(r1, r2)
    \/ \E text \in CleanTexts : CleanTextCall(text)
    \/ \E bbox \in IntersectionBoxes : CalculateIntersectionCall(bbox)

FunctionSpec == FunctionInit /\ [][FunctionNext]_vars

\* C14: process_plate returns the candidate with the strictly higher
\* confidence, and the first candidate (Tesseract's) when the two confidences
\* are equal; the text returned is the cleaned text of the chosen candidate.
C14_FirstWinsTies ==
    call.op = "process_plate" =>
        call.ret = IF call.r1[2] >= call.r2[2]
                   THEN <<_clean_text(call.r1[1]), call.r1[2]>>
                   ELSE <<_clean_text(call.r2[1]), call.r2[2]>>

\* upper-case letters and digits other than 0, 1, 5, 8 of the model's alphabet
UpperAlnum == {"A", "B", "I", "J", "O", "S", "7"}

IsAscii(text) == \A i \in 1..Len(text) : text[i] \in AsciiChars

Idempotent == _clean_text(call.ret) = call.ret

OnlyUpperAlnum == \A i \in 1..Len(call.ret) : call.ret[i] \in UpperAlnum

\* C15 as claimed: for every string s, _clean_text(_clean_text(s)) =
\* _clean_text(s), and the output holds only upper-case alphanumeric
\* characters, none of them 0, 1, 5 or 8.
C15_CleanIdempotent ==
    call.op = "_clean_text" => (Idempotent /\ OnlyUpperAlnum)

\* C15 as amended: the same for every string of ASCII characters.
C15_CleanIdempotentAscii ==
    (call.op = "_clean_text" /\ IsAscii(call.text)) => (Idempotent /\ OnlyUpperAlnum)

\* a string with a lower-case letter, a replaced digit and a dropped character
\* was cleaned
C15_Witness ==
    /\ call.op = "_clean_text"
    /\ IsAscii(call.text)
    /\ \E i \in 1..Len(call.text) : call.text[i] \in {"a", "0", "1", "5", "8"}
    /\ \E i \in 1..Len(call.text) : call.text[i] = "-"
    /\ Len(call.ret) = 1

\* x1 < x2 and y1 < y2
Proper(b) == b[1] < b[3] /\ b[2] < b[4]

\* C16: calculate_intersection returns area(roi /\ bbox) / area(bbox), a value
\* in [0, 1], for every box with x1 < x2 and y1 < y2; it returns 0 when the
\* rectangles do not overlap (touching edges included) or no ROI is
\* configured; it never divides by zero, degenerate boxes included.
C16_IntersectionRatio ==
    call.op = "calculate_intersection" =>
        LET num == call.ret[1]
            den == call.ret[2]
        IN  /\ den # 0
            /\ roi = None => num = 0
            /\ ~Proper(call.bbox) => num = 0
            /\ (roi # None /\ Proper(call.bbox)) =>
                  /\ num * Area(call.bbox) = IntersectionArea(roi, call.bbox) * den
                  /\ 0 <= num * den
                  /\ num * den <= den * den
                  /\ IntersectionArea(roi, call.bbox) = 0 => num = 0

\* a box that lies partly inside the ROI got a ratio strictly between 0 and 1
\* that is not its share of the ROI's area
C16_Witness ==
    /\ call.op = "calculate_intersection"
    /\ roi = <<0, 0, 100, 100>>
    /\ call.bbox = <<50, 0, 150, 50>>
    /\ call.ret = <<2500, 5000>>

-----------------------------------------------------------------------------
(* Axle harness: assign_wheels_to_vehicle called once with any plate box of
   AxlePlates and any wheel list of WheelLists *)

\* wheel lists of every order up to this length
MaxWheels == 4

\* a 20 x 20 wheel box around the centre (cx, cy)
WheelAt(cx, cy) == <<cx - 10, cy - 10, cx + 10, cy + 10>>

\* Wheels at the heights 100 and 110, one at 125, one at 300, one to the right
\* of every envelope and one above every plate
Wheels ==
    {WheelAt(50, 100), WheelAt(200, 110), WheelAt(50, 125), WheelAt(50, 300),
     WheelAt(400, 100), WheelAt(50, 60)}

\* nine wheels 30 apart in height
NineAxles == [k \in 1..9 |-> WheelAt(50, 70 + 30 * k)]

\* lists holding a dict without 'bbox'
MalformedLists ==
    {<<None>>, <<None, WheelAt(50, 100)>>, <<WheelAt(50, 100), WheelAt(50, 300), None>>}

WheelLists ==
    UNION {[1..n -> Wheels] : n \in 0..MaxWheels} \cup {NineAxles} \cup MalformedLists

\* plate boxes: 40 x 50 with its top at 80 (the envelope is x in 0..240), a
\* plate of no width and no height at (50, 80), a plate 40 x 20, and None
AxlePlates ==
    {<<100, 80, 140, 130>>, <<50, 80, 50, 80>>, <<100, 80, 140, 100>>, None}

\* detector.assign_wheels_to_vehicle(plate_bbox, wheels)
AssignWheelsCall(plate_bbox, wheels) ==
    /\ call.op = "none"
    /\ call' = [op |-> "assign_wheels_to_vehicle", plate_bbox |-> plate_bbox,
                wheels |-> wheels,
                ret |-> assign_wheels_to_vehicle(plate_bbox, wheels)]
    /\ UNCHANGED <<ws_vars, rl_vars, loop_vars, frames_read, tracks, next_id, now, roi, frame_count, pc, dets, db, ocr_calls,
                   assigned, log>>

AxleNext == \E plate_bbox \in AxlePlates, wheels \in WheelLists :
                AssignWheelsCall(plate_bbox, wheels)

AxleSpec == Start(None) /\ [][AxleNext]_vars

\* C18: assign_wheels_to_vehicle returns an integer in 2..8 for every plate box
\* and every wheel list, empty or not; it returns 2 on the inputs that make
\* the computation fail.
C18_AxlesInRange ==
    call.op = "assign_wheels_to_vehicle" =>
        /\ call.ret \in 2..8
        /\ (call.plate_bbox = None \/ Malformed(call.wheels)) => call.ret = 2

\* nine axle groups were formed and 8 was returned
C18_Witness ==
    /\ call.op = "assign_wheels_to_vehicle"
    /\ call.wheels = NineAxles
    /\ call.plate_bbox = <<100, 80, 140, 130>>
    /\ call.ret = 8

\* the positions of the wheels of the list that pass the envelope filter
Passing(plate_bbox, wheels) ==
    {i \in 1..Len(wheels) : InEnvelope(plate_bbox, wheels[i])}

\* two wheels differ in height by less than half the plate height
SameBand(plate_bbox, a, b) ==
    Abs(WheelCenter2(a)[2] - WheelCenter2(b)[2]) < plate_bbox[4] - plate_bbox[2]

\* the passing wheels split into bands: being less than half a plate height
\* apart is transitive among them
Banded(plate_bbox, wheels) ==
    \A i, j, k \in Passing(plate_bbox, wheels) :
        (SameBand(plate_bbox, wheels[i], wheels[j])
            /\ SameBand(plate_bbox, wheels[j], wheels[k]))
           => SameBand(plate_bbox, wheels[i], wheels[k])

\* the bands, as sets of positions
Bands(plate_bbox, wheels) ==
    {{j \in Passing(plate_bbox, wheels) :
         j = i \/ SameBand(plate_bbox, wheels[i], wheels[j])} :
     i \in Passing(plate_bbox, wheels)}

\* C19: when the wheels that pass the envelope filter split into k bands (same
\* band: heights less than half a plate height apart; different bands: at
\* least that far apart), assign_wheels_to_vehicle returns k clamped to 2..8,
\* whatever the order of the wheel list.
C19_BandsAreAxles ==
    (/\ call.op = "assign_wheels_to_vehicle"
     /\ call.plate_bbox # None
     /\ ~Malformed(call.wheels)
     /\ Banded(call.plate_bbox, call.wheels)) =>
        call.ret = Min(Max(2, Cardinality(Bands(call.plate_bbox, call.wheels))), 8)

\* three bands of wheels, the list not in order of height, a wheel outside
\* the envelope among them: 3 was returned
C19_Witness ==
    /\ call.op = "assign_wheels_to_vehicle"
    /\ call.plate_bbox = <<100, 80, 140, 130>>
    /\ call.wheels = <<WheelAt(50, 300), WheelAt(400, 100), WheelAt(50, 100), WheelAt(50, 125)>>
    /\ call.ret = 3

-----------------------------------------------------------------------------
(* Store harness: add_vehicle_detection called with any of StoreInputs, the
   transaction committing or rolling back.  log holds the calls. *)

\* add_vehicle_detection is called at most this many times
MaxStoreCalls == 3

\* (track_id, license_plate, confidence, frame_path, axle_count)
StoreInputs ==
    {<<0, <<"A">>, 60, "a.jpg", 2>>, <<0, <<"B">>, 85, "b.jpg", 3>>,
     <<0, <<"C">>, 60, "c.jpg", 4>>, <<1, <<"D">>, 50, "d.jpg", 2>>,
     <<1, <<"E">>, 45, "e.jpg", 3>>}

\* db_manager.add_vehicle_detection(track_id, license_plate, confidence,
\* frame_path, axle_count); committed is False when the session raises and
\* session_scope rolls back
AddVehicleDetectionCall(d, committed) ==
    /\ Len(log) < MaxStoreCalls
    /\ db' = IF committed
             THEN add_vehicle_detection(db, d[1], d[2], d[3], d[4], d[5])
             ELSE db
    /\ call' = [op |-> "add_vehicle_detection", ret |-> committed]
    /\ log' = Append(log, [track_id |-> d[1], license_plate |-> d[2],
                           confidence |-> d[3], frame_path |-> d[4],
                           axle_count |-> d[5], committed |-> committed])
    /\ UNCHANGED <<ws_vars, rl_vars, loop_vars, frames_read, tracks, next_id, now, roi, frame_count, pc, dets, ocr_calls, assigned>>

StoreNext == \E d \in StoreInputs, committed \in BOOLEAN : AddVehicleDetectionCall(d, committed)

StoreSpec == Start(None) /\ [][StoreNext]_vars

\* the committed calls for track_id k, as positions of log
Committed(k) == {i \in 1..Len(log) : log[i].track_id = k /\ log[i].committed}

\* the earliest of them with the highest confidence
BestCommitted(k) ==
    CHOOSE i \in Committed(k) :
        \A j \in Committed(k) :
            /\ log[j].confidence <= log[i].confidence
            /\ j < i => log[j].confidence < log[i].confidence

StoredIsBest ==
    /\ \A r \in 1..Len(db) : Committed(db[r].track_id) # {}
    /\ \A k \in {log[i].track_id : i \in 1..Len(log)} :
          Committed(k) # {} =>
             /\ Cardinality(RowsOf(k)) = 1
             /\ \A r \in RowsOf(k) :
                   LET b == log[BestCommitted(k)]
                   IN  /\ db[r].confidence = b.confidence
                       /\ db[r].license_plate = b.license_plate
                       /\ db[r].best_frame_path = b.frame_path
                       /\ db[r].axle_count = b.axle_count

StoredNeverDecreases ==
    \A r \in 1..Len(db) :
        /\ r <= Len(db')
        /\ db'[r].track_id = db[r].track_id
        /\ db'[r].confidence >= db[r].confidence

\* C21: for every track_id, over any sequence of add_vehicle_detection calls,
\* the stored confidence never decreases, and the stored license_plate,
\* best_frame_path and axle_count are those of the call that supplied the
\* highest confidence so far, the earliest such call on ties.
C21_StoredIsBest == [](StoredIsBest) /\ [][StoredNeverDecreases]_vars

\* three calls were made; two committed calls for track 0 brought the same
\* confidence with different plates, and the first of them is stored
C21_Witness ==
    /\ Len(log) = 3
    /\ \E i, j \in Committed(0) :
          /\ i < j
          /\ log[i].confidence = log[j].confidence
          /\ log[i].license_plate # log[j].license_plate
          /\ \E r \in RowsOf(0) : db[r].license_plate = log[i].license_plate

-----------------------------------------------------------------------------
(* Broadcast harness: clients connect and disconnect, and one broadcast at a
   time runs its loop over a copy of active_connections, each send succeeding
   or raising.  The other coroutines run at the awaits of the loop. *)

\* the WebSocket objects
Sockets == {"w1", "w2", "w3"}

BroadcastTypes == {"vehicle_update", "statistics_update"}

\* manager.connect(websocket)
Connect(websocket) ==
    /\ \A i \in 1..Len(active_connections) : active_connections[i] # websocket
    /\ active_connections' = Append(active_connections, websocket)
    /\ call' = [op |-> "connect"]
    /\ UNCHANGED <<last_vehicle_data, broadcast>>
    /\ UNCHANGED <<rl_vars, loop_vars, frames_read, tracks, next_id, now, roi, frame_count, pc, dets, db, ocr_calls,
                   assigned, log>>

\* websocket_endpoint on WebSocketDisconnect: manager.disconnect(websocket)
Disconnect(websocket) ==
    /\ \E i \in 1..Len(active_connections) : active_connections[i] = websocket
    /\ active_connections' = disconnect(active_connections, websocket)
    /\ call' = [op |-> "disconnect"]
    /\ UNCHANGED <<last_vehicle_data, broadcast>>
    /\ UNCHANGED <<rl_vars, loop_vars, frames_read, tracks, next_id, now, roi, frame_count, pc, dets, db, ocr_calls,
                   assigned, log>>

\* broadcast_vehicle_update / broadcast_statistics up to the loop: the copy is taken
BroadcastStart(type) ==
    /\ broadcast.state # "sending"
    /\ broadcast' = [state |-> "sending", type |-> type,
                     copy |-> active_connections, pending |-> active_connections,
                     received |-> {}, failed |-> {}]
    /\ last_vehicle_data' = IF type = "vehicle_update" THEN "data" ELSE last_vehicle_data
    /\ call' = [op |-> type]
    /\ UNCHANGED active_connections
    /\ UNCHANGED <<rl_vars, loop_vars, frames_read, tracks, next_id, now, roi, frame_count, pc, dets, db, ocr_calls,
                   assigned, log>>

\* one turn of the loop: send_json returns, or raises and the except clause
\* runs `await self.disconnect(connection)`: disconnect is a plain function, so
\* the connection is removed and the await of its None raises TypeError out of
\* the handler and out of the broadcast
Send(ok) ==
    /\ broadcast.state = "sending"
    /\ broadcast.pending # <<>>
    /\ LET connection == Head(broadcast.pending)
       IN  IF ok
           THEN /\ broadcast' = [broadcast EXCEPT !.pending = Tail(@),
                                                  !.received = @ \cup {connection}]
                /\ UNCHANGED active_connections
           ELSE /\ broadcast' = [broadcast EXCEPT !.state = "raised",
                                                  !.pending = <<>>,
                                                  !.failed = @ \cup {connection}]
                /\ active_connections' = disconnect(active_connections, connection)
    /\ call' = [op |-> "send_json"]
    /\ UNCHANGED last_vehicle_data
    /\ UNCHANGED <<rl_vars, loop_vars, frames_read, tracks, next_id, now, roi, frame_count, pc, dets, db, ocr_calls,
                   assigned, log>>

\* the loop is over: the broadcast returns to its caller
BroadcastReturn ==
    /\ broadcast.state = "sending"
    /\ broadcast.pending = <<>>
    /\ broadcast' = [broadcast EXCEPT !.state = "returned"]
    /\ call' = [op |-> "return"]
    /\ UNCHANGED <<active_connections, last_vehicle_data>>
    /\ UNCHANGED <<rl_vars, loop_vars, frames_read, tracks, next_id, now, roi, frame_count, pc, dets, db, ocr_calls,
                   assigned, log>>

BroadcastNext ==
    \/ \E websocket \in Sockets : Connect(websocket)
    \/ \E websocket \in Sockets : Disconnect(websocket)
    \/ \E type \in BroadcastTypes : BroadcastStart(type)
    \/ \E ok \in BOOLEAN : Send(ok)
    \/ BroadcastReturn

BroadcastSpec == Start(None) /\ [][BroadcastNext]_vars

\* the members of a list
Members(q) == {q[i] : i \in 1..Len(q)}

\* C22: when a send to one subscriber fails during a broadcast, the failing
\* subscriber is dropped, every other subscriber of the broadcast still
\* receives the message, and the broadcast returns without raising.
C22_BroadcastSurvivesFailure ==
    /\ broadcast.state # "raised"
    /\ broadcast.failed \cap Members(active_connections) = {}
    /\ broadcast.state = "returned" =>
          Members(broadcast.copy) \ broadcast.failed \subseteq broadcast.received

-----------------------------------------------------------------------------
(* update_plate against the transition function of the lock decision,       *)
(* under PlateSpec: log holds the (text, confidence) of every call so far   *)

\* the track of the transition function before any call
FreshTrack(m) ==
    [state |-> "TRACKING", bestText |-> SCANNING, bestConfidence |-> 0,
     attempts |-> 0, maxAttempts |-> m, report |-> "none"]

\* the transition function: increment, replace on a strictly better
\* confidence, lock by confidence, else lock by exhaustion, else remain
updatePlate(t, text, confidence) ==
    LET better == confidence > t.bestConfidence
        u == [t EXCEPT !.attempts = @ + 1,
                       !.bestText = IF better THEN text ELSE @,
                       !.bestConfidence = IF better THEN confidence ELSE @]
    IN  IF u.bestConfidence > OCR_CONFIDENCE_THRESHOLD
        THEN [u EXCEPT !.state = "LOCKED", !.report = "locked-by-confidence"]
        ELSE IF u.attempts >= u.maxAttempts
             THEN [u EXCEPT !.state = "LOCKED", !.report = "locked-by-exhaustion"]
             ELSE [u EXCEPT !.report = "tracking"]

RECURSIVE RunUpdatePlate(_, _)
RunUpdatePlate(m, calls) ==
    IF calls = <<>>
    THEN FreshTrack(m)
    ELSE LET last == calls[Len(calls)]
         IN  updatePlate(RunUpdatePlate(m, SubSeq(calls, 1, Len(calls) - 1)), last[1], last[2])

Specified == RunUpdatePlate(tracks[1].val.max_ocr_attempts, log)

SpecifiedBefore ==
    RunUpdatePlate(tracks[1].val.max_ocr_attempts, SubSeq(log, 1, Len(log) - 1))

\* after every sequence of calls the code's track and the transition
\* function's track agree on state, text, best confidence and attempts
SameTrack ==
    /\ tracks[1].val.state = Specified.state
    /\ tracks[1].val.license_plate = Specified.bestText
    /\ tracks[1].val.best_ocr_confidence = Specified.bestConfidence
    /\ tracks[1].val.ocr_attempts = Specified.attempts
    /\ tracks[1].val.processing_complete = (Specified.state = "LOCKED")

\* C23 as claimed: for every sequence of update_plate calls on a fresh track
\* the code's (state, license_plate, best_ocr_confidence, ocr_attempts) equals
\* that of the transition function, and update_plate returns True exactly
\* when the transition function reports a lock by confidence.
C23_RefinesTransitionFunction ==
    /\ SameTrack
    /\ call.op = "update_plate" =>
          (call.ret <=> Specified.report = "locked-by-confidence")

\* C23 amended: the four fields agree after every sequence of calls; the
\* return value agrees with the report for every call made while the track
\* was still TRACKING, and a call on an already LOCKED track returns True
\* only when its confidence is a new best above the threshold.
C23_RefinesWhileTracking ==
    /\ SameTrack
    /\ call.op = "update_plate" =>
          IF SpecifiedBefore.state = "TRACKING"
          THEN call.ret <=> Specified.report = "locked-by-confidence"
          ELSE call.ret <=> /\ call.confidence > SpecifiedBefore.bestConfidence
                            /\ call.confidence > OCR_CONFIDENCE_THRESHOLD

\* a second call replaced the stored text and locked the track by confidence
C23_Witness ==
    /\ call.op = "update_plate"
    /\ Len(log) = 2
    /\ SpecifiedBefore.state = "TRACKING"
    /\ SpecifiedBefore.bestConfidence > 0
    /\ Specified.report = "locked-by-confidence"
    /\ call.ret
    /\ tracks[1].val.state = "LOCKED"
    /\ tracks[1].val.license_plate # SpecifiedBefore.bestText

-----------------------------------------------------------------------------
(* The frame pipeline over long gaps: one vehicle, seen or not in each       *)
(* processed frame, and up to MaxTime seconds passing between get_frame calls *)

AgingFrameLists == {<<>>, <<<<BoxP, 90, 2>>>>}

AgingNext ==
    \/ GetFrameSkip
    \/ \E l \in AgingFrameLists : GetFrameDetect(l)
    \/ \E r2 \in EasyReadings : HandleDetection(<<<<>>, 0>>, r2, "none")
    \/ GetFrameReturn
    \/ (pc = "idle" /\ Tick(MaxTime))

AgingSpec == Init /\ [][AgingNext]_vars

\* C24: eviction runs as part of frame processing, so when a processed frame
\* returns the registry holds no track last seen more than max_age (3) seconds
\* ago and no LOCKED track last seen more than one second ago: tracks that
\* stopped matching detections are removed and the registry does not grow.
C24_StaleTracksEvicted ==
    (pc = "idle" /\ call.op = "return") =>
        \A i \in 1..Len(tracks) : ~Stale(tracks[i].val, DEFAULT_MAX_AGE)

-----------------------------------------------------------------------------
(* assign_wheels_to_vehicle against the reference procedure, under AxleSpec *)

\* the wheel's centre is inside the envelope of width 6 x plate width around
\* the plate's horizontal centre and below the plate's top edge (coordinates
\* doubled, pixel coordinates are never negative)
Kept(plate_bbox, wheel_bbox) ==
    LET cx2 == wheel_bbox[1] + wheel_bbox[3]
        cy2 == wheel_bbox[2] + wheel_bbox[4]
        px2 == plate_bbox[1] + plate_bbox[3]
        half_width2 == 6 * (plate_bbox[3] - plate_bbox[1])
    IN  /\ Abs(cx2 - px2) <= half_width2
        /\ cy2 > 2 * plate_bbox[2]

\* the groups after the first n kept wheels, each group as the sum of its
\* doubled heights and its size: the wheel joins the first group whose mean
\* is less than 0.5 x plate height away, else opens a new group
RECURSIVE ReferenceGroups(_, _, _)
ReferenceGroups(plate_height, ys2, n) ==
    IF n = 0
    THEN <<>>
    ELSE LET groups == ReferenceGroups(plate_height, ys2, n - 1)
             y2 == ys2[n]
             near(g) == Abs(y2 * groups[g].size - groups[g].sum) < plate_height * groups[g].size
             first == {g \in 1..Len(groups) : near(g) /\ \A h \in 1..(g - 1) : ~near(h)}
         IN  IF first = {}
             THEN Append(groups, [sum |-> y2, size |-> 1])
             ELSE [g \in 1..Len(groups) |->
                      IF g \in first
                      THEN [sum |-> groups[g].sum + y2, size |-> groups[g].size + 1]
                      ELSE groups[g]]

\* the number of groups of the reference procedure
ReferenceCount(plate_bbox, wheels) ==
    LET kept == SelectSeq(wheels, LAMBDA w : Kept(plate_bbox, w))
        ys2 == [i \in 1..Len(kept) |-> kept[i][2] + kept[i][4]]
    IN  Len(ReferenceGroups(plate_bbox[4] - plate_bbox[2], ys2, Len(ys2)))

-----------------------------------------------------------------------------
(* The frame pipeline: the axle count written to the store *)

\* C26: whenever get_frame writes a track's row to the store, the row's
\* axle_count is that track's max_axle_count at that moment, not the estimate
\* of the frame in which the row is written.
C26_StoresRunningMaximum ==
    [][\A r \in 1..Len(db') :
          (r > Len(db) \/ db'[r] # db[r]) =>
              \E i \in 1..Len(tracks') :
                  /\ tracks'[i].val.track_id = db'[r].track_id
                  /\ db'[r].axle_count = tracks'[i].val.max_axle_count]_vars

-----------------------------------------------------------------------------
(* Suppression harness: one call of apply_nms on any list of NmsLists *)

\* apply_nms is called with at most this many plate detections
MaxNmsDets == 3

\* plate detections (bbox, confidence) as the model hands them over: BoxQ and
\* BoxR share half their width, the other pairs are disjoint
NmsInputs ==
    {<<BoxP, 90>>, <<BoxQ, 60>>, <<BoxR, 70>>, <<BoxS, 80>>, <<BoxQ, 95>>}

NmsLists == UNION {[1..n -> NmsInputs] : n \in 0..MaxNmsDets}

\* detector.apply_nms(detections)
ApplyNmsCall(detections) ==
    /\ call.op = "none"
    /\ call' = [op |-> "apply_nms", detections |-> detections,
                ret |-> apply_nms(detections)]
    /\ UNCHANGED <<ws_vars, rl_vars, loop_vars, frames_read, tracks, next_id, now, roi, frame_count, pc, dets, db, ocr_calls,
                   assigned, log>>

NmsNext == \E detections \in NmsLists : ApplyNmsCall(detections)

NmsSpec == Start(None) /\ [][NmsNext]_vars

\* the intersection over union of two (x1, y1, x2, y2) boxes exceeds iou_threshold
IoUAbove(a, b) ==
    LET i == IntersectionArea(a, b)
    IN  100 * i > IOU_THRESHOLD * (Area(a) + Area(b) - i)

\* C27: apply_nms returns detections of its input, no two of them with an IoU
\* of their (x1, y1, x2, y2) boxes above the threshold, and every detection it
\* removed has an IoU above the threshold with a returned detection whose
\* confidence is at least its own.
C27_SuppressesByIoU ==
    call.op = "apply_nms" =>
        LET in == call.detections
            out == call.ret
        IN  /\ \A k \in 1..Len(out) : \E i \in 1..Len(in) : in[i] = out[k]
            /\ \A k, l \in 1..Len(out) : k # l => ~IoUAbove(out[k][1], out[l][1])
            /\ \A i \in 1..Len(in) :
                  (\A k \in 1..Len(out) : out[k] # in[i]) =>
                      \E k \in 1..Len(out) :
                          /\ IoUAbove(in[i][1], out[k][1])
                          /\ out[k][2] >= in[i][2]

-----------------------------------------------------------------------------
(* The frame pipeline: the skip cadence *)

\* the call that moves frame_count to k is the k-th get_frame call
KthCall == frame_count' # frame_count

-----------------------------------------------------------------------------
(* The frame pipeline: faults while a detection is handled *)

\* C29: whatever happens while one plate detection of a frame is handled (the
\* crop, the recognition, the image save, the write to the store or the
\* broadcast failing), only that detection is given up: the loop goes on with
\* the next detection of the frame, so every remaining detection is matched to
\* a track and gated before get_frame returns.
C29_FaultSkipsOneDetection ==
    [][(pc = "loop" /\ dets # <<>> /\ call'.op = "detection") =>
          dets' = Tail(dets)]_vars

-----------------------------------------------------------------------------
(* The frame pipeline: recognition that yields nothing *)

\* what a failing engine contributes
NoCandidate == <<<<>>, 0>>

\* `text and confidence > 0` is false
NoReading(read) == read[1] = <<>> \/ read[2] = 0

\* the engines' readings that leave process_plate without a usable result
NoReadingPairs ==
    {p \in TessReadings \X EasyReadings : NoReading(process_plate(p[1], p[2]))}

\* the step is one turn of get_frame's loop in which the crop was missing or
\* the engines read one of NoReadingPairs
NothingRead ==
    \/ HandleDetection(NoCandidate, NoCandidate, "crop")
    \/ \E p \in NoReadingPairs, fault \in Faults : HandleDetection(p[1], p[2], fault)

\* the step did what get_track does and nothing more, and the loop goes on
OnlyMatched ==
    /\ pc = "loop"
    /\ dets # <<>>
    /\ LET det == Head(dets)
           g == get_track(tracks, next_id, det[1], det[2], det[3], now)
       IN  /\ tracks' = g.tracks
           /\ next_id' = g.next_id
    /\ db' = db
    /\ dets' = Tail(dets)

-----------------------------------------------------------------------------
(* update_plate on a LOCKED track, under PlateSpec *)

\* the fields update_plate can write
PlateFields(tr) ==
    <<tr.ocr_attempts, tr.license_plate, tr.best_ocr_confidence, tr.best_plate_image,
      tr.state>>

\* C31: update_plate called on a track that is already LOCKED changes nothing:
\* ocr_attempts, license_plate, best_ocr_confidence, best_plate_image and state
\* are as before, whatever the text and the confidence.
C31_LockedUpdateIsNoOp ==
    [][(call'.op = "update_plate" /\ tracks[1].val.state = "LOCKED") =>
          PlateFields(tracks'[1].val) = PlateFields(tracks[1].val)]_vars

-----------------------------------------------------------------------------
(* Several /video_feed requests on one event loop: each runs gen_frames, which
   awaits camera.get_frame() and yields the frame.  A coroutine keeps the event
   loop until it suspends. *)

\* where a gen_frames coroutine suspends: at its yield, while the response is
\* sent.  get_frame's own awaits do not suspend: save_image is an `async def`
\* with no await inside, awaiting add_vehicle_detection's bool raises, and
\* broadcast_vehicle_update is not reached
SuspensionPoints_with_recognition == {"yield", "ocr"}

SuspensionPoints == {"yield"}

\* the plates of a frame in this harness
CoFrameLists == {<<>>, <<<<BoxP, 90, 2>>>>, <<<<BoxP, 90, 2>>, <<BoxS, 80, 2>>>>}

\* what the engines read in this harness
CoReadings == {<<NoCandidate, NoCandidate>>, <<<<<<"A", "1">>, 30>>, NoCandidate>>,
               <<NoCandidate, <<<<"b", "-", "5">>, 60>>>>}

\* get_frame's loop body after should_process returned True for the track at
\* place i: extract_plate, process_plate, update_plate, save_image,
\* add_vehicle_detection
recognize(trs, rows, calls, i, det, t, img, r1, r2, fault) ==
    LET track == trs[i].val
        axle_count == det[3]
        quiet == [tracks |-> trs, db |-> rows, ocr_calls |-> calls, raised |-> FALSE,
                  updated |-> FALSE]
    IN  IF fault = "crop"
        THEN quiet
        ELSE LET read == process_plate(r1, r2)
                 text == read[1]
                 confidence == read[2]
                 called == [quiet EXCEPT !.ocr_calls = Count(calls, track.track_id)]
             IN  IF ~(text # <<>> /\ confidence > 0)
                 THEN called
                 ELSE LET u == update_plate(track, text, confidence, img)
                          updated == [called EXCEPT !.tracks[i].val = u.track,
                                                    !.updated = TRUE]
                          frame_path == <<text, track.track_id, t>>
                      IN  IF ~u.ret \/ fault = "save"
                          THEN updated
                          ELSE [updated EXCEPT
                                  !.tracks[i].val.frame_path = frame_path,
                                  !.db = IF fault # "db"
                                         THEN add_vehicle_detection(rows, track.track_id, text,
                                                  confidence, frame_path, axle_count)
                                         ELSE rows,
                                  !.raised = TRUE]

\* the event loop resumes c at its yield: get_frame on a frame the cadence
\* passes through, and c suspends at the yield again
CoSkip(c) ==
    /\ running = NoTask
    /\ tasks[c].pc = "idle"
    /\ frame_count < MaxFrames
    /\ (frame_count + 1) % SKIP_FRAMES # 0
    /\ frame_count' = frame_count + 1
    /\ frames_read' = frames_read + 1
    /\ call' = [op |-> "get_frame", task |-> c]
    /\ UNCHANGED <<ws_vars, rl_vars, loop_vars, tracks, next_id, now, roi, pc, dets, db, ocr_calls,
                   assigned, log>>

\* the event loop resumes c at its yield: get_frame on a frame it processes
CoDetect(c, l) ==
    /\ running = NoTask
    /\ tasks[c].pc = "idle"
    /\ frame_count < MaxFrames
    /\ (frame_count + 1) % SKIP_FRAMES = 0
    /\ frame_count' = frame_count + 1
    /\ frames_read' = frames_read + 1
    /\ tasks' = [tasks EXCEPT ![c] = [pc |-> "loop", dets |-> l, track |-> 0]]
    /\ running' = c
    /\ call' = [op |-> "get_frame", task |-> c]
    /\ UNCHANGED <<ws_vars, rl_vars, tracks, next_id, now, roi, pc, dets, db, ocr_calls, assigned, log>>

\* c's loop takes its next detection: get_track, calculate_intersection and
\* should_process
CoGate(c) ==
    /\ running = c
    /\ tasks[c].pc = "loop"
    /\ tasks[c].dets # <<>>
    /\ LET det == Head(tasks[c].dets)
           g == get_track(tracks, next_id, det[1], det[2], det[3], now)
       IN  /\ tracks' = g.tracks
           /\ next_id' = g.next_id
           /\ assigned' = assigned \cup {g.tracks[j].key : j \in 1..Len(g.tracks)}
           /\ IF should_process(g.tracks[g.ret].val, InRoi(roi, det[1]))
              THEN /\ tasks' = [tasks EXCEPT ![c].pc = "ocr", ![c].track = g.ret]
                   /\ running' = IF "ocr" \in SuspensionPoints THEN NoTask ELSE c
              ELSE /\ tasks' = [tasks EXCEPT ![c].dets = Tail(@)]
                   /\ running' = c
    /\ call' = [op |-> "gate", task |-> c]
    /\ UNCHANGED <<ws_vars, rl_vars, now, roi, frame_count, frames_read, pc, dets, db, ocr_calls, log>>

\* c goes on from should_process to the end of the loop body; log tells which
\* coroutine called update_plate
CoRecognize(c, r1, r2, fault) ==
    /\ tasks[c].pc = "ocr"
    /\ running = IF "ocr" \in SuspensionPoints THEN NoTask ELSE c
    /\ LET h == recognize(tracks, db, ocr_calls, tasks[c].track, Head(tasks[c].dets), now,
                          frame_count, r1, r2, fault)
       IN  /\ tracks' = h.tracks
           /\ db' = h.db
           /\ ocr_calls' = h.ocr_calls
           /\ log' = IF h.updated THEN Append(log, c) ELSE log
           /\ tasks' = [tasks EXCEPT ![c].pc = "loop", ![c].track = 0,
                                     ![c].dets = IF h.raised THEN <<>> ELSE Tail(@)]
    /\ running' = c
    /\ call' = [op |-> "recognize", task |-> c]
    /\ UNCHANGED <<ws_vars, rl_vars, next_id, now, roi, frame_count, frames_read, pc, dets, assigned>>

\* c's get_frame returns the encoded frame and gen_frames suspends at its yield
CoReturn(c) ==
    /\ running = c
    /\ tasks[c].pc = "loop"
    /\ tasks[c].dets = <<>>
    /\ tasks' = [tasks EXCEPT ![c] = IdleTask]
    /\ running' = NoTask
    /\ call' = [op |-> "return", task |-> c]
    /\ UNCHANGED <<ws_vars, rl_vars, tracks, next_id, now, roi, frame_count, frames_read, pc, dets, db,
                   ocr_calls, assigned, log>>

CoNext ==
    \/ \E c \in Consumers : CoSkip(c)
    \/ \E c \in Consumers, l \in CoFrameLists : CoDetect(c, l)
    \/ \E c \in Consumers : CoGate(c)
    \/ \E c \in Consumers, r \in CoReadings, fault \in Faults : CoRecognize(c, r[1], r[2], fault)
    \/ \E c \in Consumers : CoReturn(c)

CoSpec == Init /\ [][CoNext]_vars

\* C32: with several consumers on the shared camera, a coroutine that has
\* passed should_process for a track holds the event loop until its
\* update_plate is done and no two get_frame executions are in progress at
\* once; no track's ocr_attempts passes max_ocr_attempts and no track is
\* written to the store twice.
C32_NoInterleavingOnTrack ==
    /\ \A c \in Consumers : tasks[c].pc = "ocr" => running = c
    /\ \A c, d \in Consumers : (tasks[c].pc # "idle" /\ tasks[d].pc # "idle") => c = d
    /\ \A i \in 1..Len(tracks) :
          tracks[i].val.ocr_attempts <= tracks[i].val.max_ocr_attempts
    /\ \A r \in 1..Len(db) :
          db[r].total_detections = 1 /\ Cardinality(RowsOf(db[r].track_id)) = 1

\* two coroutines each made one of the two update_plate calls of one track
C32_Witness ==
    /\ Len(log) = 2
    /\ log[1] # log[2]
    /\ Len(tracks) = 1
    /\ tracks[1].val.ocr_attempts = 2
    /\ tracks[1].val.state = "LOCKED"
    /\ running = NoTask

-----------------------------------------------------------------------------
(* The frame pipeline: notification of a commit *)

\* C33: every commit get_frame makes (add_vehicle_detection returning True) is
\* followed in the same frame by a broadcast_vehicle_update: when the frame
\* returns with a row in the store, the notification has been issued, which
\* sets last_vehicle_data before anything is sent.
C33_CommitIsBroadcast ==
    (call.op = "return" /\ db # <<>>) =>
        (last_vehicle_data # None \/ broadcast.state # "idle")

-----------------------------------------------------------------------------
(* add_vehicle_detection called twice with the same arguments, under StoreSpec *)

\* the step is a committed call whose arguments are those of the committed
\* call before it
Repeated ==
    /\ Len(log) >= 1
    /\ Len(log') = Len(log) + 1
    /\ log[Len(log)].committed
    /\ log'[Len(log')] = log[Len(log)]

\* at most one row for a track_id
OneRowPerTrack ==
    \A r, q \in 1..Len(db) : db[r].track_id = db[q].track_id => r = q

\* C34 as claimed: repeating a call of add_vehicle_detection with the same
\* arguments leaves the stored record of that track_id unchanged, and the
\* store never holds more than one row for a track_id.
C34_Idempotent ==
    /\ [](OneRowPerTrack)
    /\ [][Repeated => db' = db]_vars

\* C34 as amended: the repeated call leaves license_plate, confidence,
\* best_frame_path and axle_count of the track's row and every other row
\* unchanged and adds one to the row's total_detections; the store never holds
\* more than one row for a track_id.
C34_IdempotentButCounted ==
    /\ [](OneRowPerTrack)
    /\ [][Repeated =>
            /\ Len(db') = Len(db)
            /\ \A r \in 1..Len(db) :
                  db'[r] = IF db[r].track_id = log[Len(log)].track_id
                           THEN [db[r] EXCEPT !.total_detections = @ + 1]
                           ELSE db[r]]_vars

\* the same committed call was made twice after another one for the same
\* track_id: one row, counted three times
C34_Witness ==
    /\ Len(log) = 3
    /\ log[2] = log[3]
    /\ log[1] # log[2]
    /\ \A i \in 1..3 : log[i].committed /\ log[i].track_id = 0
    /\ Len(db) = 1
    /\ db[1].total_detections = 3

-----------------------------------------------------------------------------
(* The frame pipeline without a ROI *)

\* C35: while no ROI is configured calculate_intersection returns 0 for every
\* box and in_roi is false, so no step of the pipeline makes a recognition
\* call, writes a row or takes a track out of TRACKING.
C35_NoRoiNoRecognition ==
    /\ [](\A b \in Boxes : calculate_intersection(None, b)[1] = 0 /\ ~InRoi(None, b))
    /\ [][roi = None =>
            /\ ocr_calls' = ocr_calls
            /\ db' = db
            /\ \A j \in 1..Len(tracks') :
                  \/ tracks'[j].val.state = "TRACKING"
                  \/ \E i \in 1..Len(tracks) :
                        /\ tracks[i].key = tracks'[j].key
                        /\ tracks[i].val.state = "LOCKED"]_vars

\* two frames were processed without a ROI: a plate seen with confidence 0.9
\* has its track, still TRACKING with no attempt made, and nothing was read
C35_Witness ==
    /\ roi = None
    /\ frame_count = 4
    /\ call.op = "detection"
    /\ ocr_calls = <<>>
    /\ db = <<>>
    /\ \E i \in 1..Len(tracks) :
          /\ tracks[i].val.detection_confidence > SHOULD_PROCESS_CONFIDENCE
          /\ tracks[i].val.state = "TRACKING"
          /\ tracks[i].val.ocr_attempts = 0

-----------------------------------------------------------------------------
(* The fusion of the two engines' readings *)

\* the candidates of the call whose confidence is the one returned
Winners == {p \in {call.r1, call.r2} : p[2] = call.ret[2]}

\* C36: process_plate returns the larger of the two confidences unchanged and
\* _clean_text of the text of a candidate that has it; a candidate with the
\* strictly larger confidence gives the same result whichever engine read it.
C36_SameNormalizationForEitherEngine ==
    call.op = "process_plate" =>
        /\ call.ret[2] = Max(call.r1[2], call.r2[2])
        /\ \E p \in Winners : call.ret[1] = _clean_text(p[1])
        /\ call.r1[2] # call.r2[2] =>
              process_plate(call.r2, call.r1) = call.ret

\* EasyOCR won with a text that cleaning changes, against a different text
C36_Witness ==
    /\ call.op = "process_plate"
    /\ call.r2[2] > call.r1[2]
    /\ call.r1[2] > 0
    /\ call.r2[1] = <<"b", "-", "5">>
    /\ call.r1[1] = <<"A", "1">>
    /\ call.ret = <<<<"B", "S">>, call.r2[2]>>

-----------------------------------------------------------------------------
(* The emission of a track *)

\* the entries of trs under the key k
Under(trs, k) == {i \in 1..Len(trs) : trs[i].key = k}

\* get_frame has reached add_vehicle_detection for the track tracks'[j] in
\* this step: track.frame_path was assigned, the statement before the call
Emitted(j) ==
    /\ tracks'[j].val.frame_path # None
    /\ \A i \in Under(tracks, tracks'[j].key) :
          tracks[i].val.frame_path # tracks'[j].val.frame_path

\* C37: get_frame reaches add_vehicle_detection at most once for a track id:
\* the track it is reached for was TRACKING, never emitted and without a row,
\* is LOCKED afterwards and is never processed again; the text passed is the
\* track's license_plate, and a row written holds the track's license_plate
\* and best_ocr_confidence.
C37_EmittedOnceWithBestReading ==
    /\ [](\A r \in 1..Len(db) :
             db[r].total_detections = 1 /\ Cardinality(RowsOf(db[r].track_id)) = 1)
    /\ [][\A j \in 1..Len(tracks') :
            LET new == tracks'[j].val
            IN  /\ Emitted(j) =>
                      /\ call'.op = "detection"
                      /\ Under(tracks, tracks'[j].key) # {}
                            => \A i \in Under(tracks, tracks'[j].key) :
                                  /\ tracks[i].val.frame_path = None
                                  /\ tracks[i].val.state = "TRACKING"
                      /\ RowsOf(new.track_id) = {}
                      /\ new.state = "LOCKED"
                      /\ new.frame_path[1] = new.license_plate
                      /\ new.best_ocr_confidence > OCR_CONFIDENCE_THRESHOLD
                      /\ db' # db =>
                            /\ Len(db') = Len(db) + 1
                            /\ db'[Len(db')].track_id = new.track_id
                            /\ db'[Len(db')].license_plate = new.license_plate
                            /\ db'[Len(db')].confidence = new.best_ocr_confidence
                /\ ~Emitted(j) =>
                      \A r \in 1..Len(db') :
                          db'[r].track_id = new.track_id => r <= Len(db) /\ db'[r] = db[r]]_vars

\* a track was emitted on its second reading, and a later detection in the
\* ROI has matched it without a second write
C37_Witness ==
    /\ call.op = "detection"
    /\ Len(db) = 1
    /\ \E i \in 1..Len(tracks) :
          /\ tracks[i].val.track_id = db[1].track_id
          /\ tracks[i].val.ocr_attempts = 2
          /\ tracks[i].val.frame_path # None
          /\ tracks[i].val.frame_path[3] < tracks[i].val.last_seen
          /\ InRoi(roi, tracks[i].val.last_bbox)

-----------------------------------------------------------------------------
(* web/backend/middleware.py: RateLimiter *)

\* RateLimiter.rate_limit: requests per minute
rate_limit == 100

\* RateLimiter.window: seconds
window == 60

\* the variables the rate limiter leaves alone
pipeline_vars ==
    <<tracks, next_id, now, roi, frame_count, pc, dets, db, ocr_calls, assigned, log,
      frames_read, ws_vars, loop_vars>>

\* redis SETEX key seconds value
setex(seconds, value) == [value |-> <<value>>, ttl |-> seconds]

\* redis INCR key: a key that does not exist is created at 0, without expiry,
\* and incremented; an existing key keeps its TTL
incr(k) ==
    IF k.value = None
    THEN [value |-> <<1>>, ttl |-> NoExpiry]
    ELSE [k EXCEPT !.value = <<k.value[1] + 1>>]

\* a second passes in redis: the TTL of the key runs down and the key is
\* deleted when it is over
RateTick ==
    /\ rate_key.ttl > 0
    /\ rate_key' = IF rate_key.ttl = 1
                   THEN [value |-> None, ttl |-> NoKey]
                   ELSE [rate_key EXCEPT !.ttl = @ - 1]
    /\ call' = [op |-> "tick"]
    /\ UNCHANGED <<limiter, pipeline_vars>>

\* __call__ on a WebSocket upgrade: passed on before the counter is read
RateWebSocket ==
    /\ limiter.pc = "idle"
    /\ call' = [op |-> "request", upgrade |-> TRUE, status |-> 200]
    /\ UNCHANGED <<rl_vars, pipeline_vars>>

\* __call__: current = self.redis.get(key)
RateGet ==
    /\ limiter.pc = "idle"
    /\ limiter' = [pc |-> "got", current |-> rate_key.value]
    /\ call' = [op |-> "get"]
    /\ UNCHANGED <<rate_key, pipeline_vars>>

\* __call__: current is None, self.redis.setex(key, self.window, 1)
RateSetex ==
    /\ limiter.pc = "got"
    /\ limiter.current = None
    /\ rate_key' = setex(window, 1)
    /\ limiter' = [pc |-> "idle", current |-> None]
    /\ call' = [op |-> "request", upgrade |-> FALSE, status |-> 200]
    /\ UNCHANGED pipeline_vars

\* __call__: int(current) >= self.rate_limit, the 429 response
RateReject ==
    /\ limiter.pc = "got"
    /\ limiter.current # None
    /\ limiter.current[1] >= rate_limit
    /\ limiter' = [pc |-> "idle", current |-> None]
    /\ call' = [op |-> "request", upgrade |-> FALSE, status |-> 429]
    /\ UNCHANGED <<rate_key, pipeline_vars>>

\* __call__: otherwise self.redis.incr(key)
RateIncr ==
    /\ limiter.pc = "got"
    /\ limiter.current # None
    /\ limiter.current[1] < rate_limit
    /\ rate_key' = incr(rate_key)
    /\ limiter' = [pc |-> "idle", current |-> None]
    /\ call' = [op |-> "request", upgrade |-> FALSE, status |-> 200]
    /\ UNCHANGED pipeline_vars

RateNext ==
    \/ RateTick
    \/ RateWebSocket
    \/ RateGet
    \/ RateSetex
    \/ RateReject
    \/ RateIncr

RateSpec == Init /\ [][RateNext]_vars

\* C38: the counter key of a client always carries an expiry of at most one
\* window, whenever the key expires relative to the GET and the command that
\* follows it, so a client answered 429 is admitted again within the window.
C38_CounterAlwaysExpires ==
    rate_key.value # None => rate_key.ttl \in 1..window

====
